---- MODULE Spec2Model ----
(***************************************************************************)
(* Model of the sales-script-graph single page application:                *)
(*   - the script viewer (src/src/App.tsx, component App with the          *)
(*     language select, history and pinned nodes),                         *)
(*   - the visual graph editor (src/src/components/GraphEditor.tsx),       *)
(*   - the notes panel (src/src/components/CommentPanel.tsx and the        *)
(*     effect-loading variant in src/unnamed/part_003),                    *)
(*   - the pinned-node store (App.tsx togglePinned, Sidebar.tsx usePinned).*)
(* Each component has its own specification over the shared variables.     *)
(***************************************************************************)
EXTENDS Integers, Sequences, FiniteSets, TLC

\* ------------------------------------------------------------------------
\* Bounds of the model (not program constants)
\* ------------------------------------------------------------------------
MaxLoads == 3
MaxHist == 3

\* ------------------------------------------------------------------------
\* Values
\* ------------------------------------------------------------------------
\* JavaScript null / undefined for a string-valued slot
Null == "<null>"

\* Lang: the languages of the select (three of the six are modelled)
Lang == {"pl", "cs", "uk"}

RECURSIVE SeqToSet(_)
SeqToSet(s) == IF s = <<>> THEN {} ELSE {Head(s)} \cup SeqToSet(Tail(s))

RECURSIVE SelectSeqBy(_, _, _)
\* s.filter(p) where p(x) is "x[field] = v"; kept for source-like reading
SelectSeqBy(s, field, v) ==
  IF s = <<>> THEN <<>>
  ELSE IF Head(s)[field] = v
       THEN <<Head(s)>> \o SelectSeqBy(Tail(s), field, v)
       ELSE SelectSeqBy(Tail(s), field, v)

\* Transition, GraphNode, Edge, GraphData constructors
Transition(label, to) == [label |-> label, to |-> to]

GraphNode(id, title, type, text, transitions) ==
  [id |-> id, title |-> title, type |-> type, text |-> text,
   transitions |-> transitions]

Edge(from, to, label) == [from |-> from, to |-> to, label |-> label]

\* kind "graph" is a document with a node list
GraphData(nodes, edges, ui) ==
  [kind |-> "graph", nodes |-> nodes, edges |-> edges, ui |-> ui]

\* a JSON value without a node list (loaded.nodes is undefined)
NoNodeList == [kind |-> "no_node_list", nodes |-> <<>>, edges |-> <<>>, ui |-> "none"]

\* the value null of a GraphData | null slot
NullGraph == [kind |-> "null", nodes |-> <<>>, edges |-> <<>>, ui |-> "none"]

\* ------------------------------------------------------------------------
\* Documents the server may return
\* ------------------------------------------------------------------------
\* greeting is not the first node; a node with its own transitions, one of
\* them to an unknown id, and with an edge leaving it as well; the other
\* nodes get their buttons from the edges
DocMain ==
  GraphData(
    << GraphNode("a", "Intro", "snippet", <<"p">>,
                 <<Transition("x", "b"), Transition("y", "zz")>>),
       GraphNode("b", "Hello", "greeting", <<>>, <<>>),
       GraphNode("c", "Ask", "question", <<"q">>, <<>>) >>,
    << Edge("b", "c", "go"), Edge("c", "a", ""), Edge("a", "c", "side") >>,
    "right")

\* no greeting node; an edge whose target is the empty string
DocNoGreeting ==
  GraphData(
    << GraphNode("c", "Ask", "router", <<>>, <<>>),
       GraphNode("a", "Intro", "snippet", <<"p">>, <<>>) >>,
    << Edge("c", "a", "n"), Edge("a", "c", "m"), Edge("a", "", "e") >>,
    "none")

\* an empty node list
DocEmpty == GraphData(<<>>, <<>>, "none")

\* the greeting node has the empty string as id, and a transition leads to it
DocEmptyId ==
  GraphData(
    << GraphNode("a", "Intro", "snippet", <<>>, <<Transition("e", "")>>),
       GraphNode("", "Hello", "greeting", <<>>, <<>>) >>,
    <<>>,
    "none")

Docs == {DocMain, DocNoGreeting, DocEmpty, DocEmptyId, NoNodeList}

\* What one request can produce: res.ok false, fetch rejecting, res.json()
\* rejecting, the JSON value null, or a JSON value
Outcomes ==
  { [kind |-> k, doc |-> NoNodeList] :
      k \in {"http_error", "network_error", "not_json", "json_null"} }
  \cup { [kind |-> "json", doc |-> d] : d \in Docs }

FailureKinds == {"http_error", "network_error", "not_json"}

\* ------------------------------------------------------------------------
\* State
\* ------------------------------------------------------------------------
VARIABLES
  lang,        \* App: useState<Lang>("pl")
  graph,       \* App: useState<GraphData | null>(null); NullGraph or a document
  currentId,   \* App: useState<string | null>(null)
  history,     \* App: useState<string[]>([])
  loads,       \* runs of the load effect still awaiting a response
  started,     \* number of runs of the load effect so far
  fetchCount,  \* number of fetch() calls issued so far
  logged,      \* number of console.error calls of the load effect
  crashed,     \* render threw and React removed the tree
  startup,     \* how the first run of the load effect ended
  graphLang,   \* language of the run that last called setGraph
  graphRun,    \* number of the run that last called setGraph, 0 when none
  lastOp       \* the handler that ran last, with its argument

viewerVars ==
  <<lang, graph, currentId, history, loads, started, fetchCount, logged,
    crashed, startup, graphLang, graphRun,
    lastOp>>


\* the graph editor
VARIABLES
  edOpen,          \* prop open
  edValue,         \* prop value: the document handed to the editor
  edNodes,         \* useNodesState: the nodes on the canvas
  edEdges,         \* useEdgesState: the edges on the canvas
  selectedNodeId,  \* useState<string | null>(null)
  onChangeCount,   \* number of calls of the prop onChange
  onChangeArg,     \* argument of the last call of onChange
  exported,        \* the file written by the last downloadJSON
  uploads,         \* files whose file.text() promise is still pending
  importedFrom,    \* canvas at the export of the file imported last
  alerts,          \* number of alert() calls of uploadJSON
  edits,           \* number of operations so far that edit, save, export or import
  edLastOp         \* the editor handler that ran last

editorVars ==
  <<edOpen, edValue, edNodes, edEdges, selectedNodeId, onChangeCount,
    onChangeArg, exported, uploads, importedFrom, alerts, edits, edLastOp>>

\* the notes panel
VARIABLES
  noteVariant,      \* "lazy": CommentPanel.tsx; "effect": part_003
  noteMounted,      \* the panel is mounted
  noteKey,          \* prop graphKey
  noteValue,        \* useState: the text shown in the textarea
  notePending,      \* setValue(saved) queued by the loading effect, or NoPending
  noteStore,        \* localStorage: key -> text, Null when absent
  noteShownBefore,  \* the text shown just before the last unmount
  noteReloaded,     \* the panel was unmounted at least once
  noteStorageFailed,  \* a localStorage access has thrown
  noteLastOp        \* the step of the panel that ran last

notesVars ==
  <<noteVariant, noteMounted, noteKey, noteValue, notePending, noteStore,
    noteShownBefore, noteReloaded, noteStorageFailed, noteLastOp>>

\* the pinned nodes
VARIABLES
  pinMounted,      \* the component holding the pinned state is mounted
  pinnedIds,       \* useState: the pinned ids, in insertion order
  pinStore,        \* localStorage item of the pins: absent, or a JSON array
  pinsBefore,      \* the set of pinned ids just before the last unmount
  pinStorageFailed,  \* a localStorage access of the pins has thrown
  pinLastOp        \* the step that ran last

pinVars ==
  <<pinMounted, pinnedIds, pinStore, pinsBefore, pinStorageFailed, pinLastOp>>

\* the viewers that navigate by options
VARIABLES
  ovGraph,      \* useState<GraphT | null>(null); NullGraph or the loaded value
  ovCurrentId,  \* useState of currentId; Null for null / undefined
  ovLoading,    \* the fetch of graph.json has not been answered yet
  ovSearch,     \* useState(''): the text of the search input
  ovWarned,     \* the handler that ran last ended in console.warn
  ovLastOp      \* the handler that ran last, with its argument

optionVars == <<ovGraph, ovCurrentId, ovLoading, ovSearch, ovWarned, ovLastOp>>

\* the list of the sidebar
VARIABLES
  sbNodes,    \* graph.nodes of the loaded document
  sbSearch,   \* useState(""): the text of the search input
  sbLastOp    \* the handler that ran last

sidebarVars == <<sbNodes, sbSearch, sbLastOp>>

\* one call of layoutByLevels
VARIABLES
  lyIn,      \* the arguments: nodes, edges, opts.startId, opts.xGap, opts.yGap
  lyPc,      \* "start", "loop" (the while loop) or "done" (returned)
  lyRoots,   \* roots
  lyLevel,   \* the Map level: id -> number, for the ids that have one
  lyQ,       \* the queue q
  lyLaid,    \* laid, the array returned
  lySets,    \* id -> how many times level.set was called for it
  lyPushes   \* id -> how many times it was put on the queue

layoutVars == <<lyIn, lyPc, lyRoots, lyLevel, lyQ, lyLaid, lySets, lyPushes>>

vars ==
  <<viewerVars, editorVars, notesVars, pinVars, optionVars, sidebarVars,
    layoutVars>>

\* what the handlers of one component leave alone
notViewer == <<editorVars, notesVars, pinVars, optionVars, sidebarVars, layoutVars>>
notEditor == <<viewerVars, notesVars, pinVars, optionVars, sidebarVars, layoutVars>>
notNotes == <<viewerVars, editorVars, pinVars, optionVars, sidebarVars, layoutVars>>
notPins == <<viewerVars, editorVars, notesVars, optionVars, sidebarVars, layoutVars>>
notOptions == <<viewerVars, editorVars, notesVars, pinVars, sidebarVars, layoutVars>>
notSidebar == <<viewerVars, editorVars, notesVars, optionVars, layoutVars>>
notLayout ==
  <<viewerVars, editorVars, notesVars, pinVars, optionVars, sidebarVars>>

Op(name, arg) == [op |-> name, arg |-> arg]

\* ------------------------------------------------------------------------
\* Viewer: selectors
\* ------------------------------------------------------------------------
\* ids of the nodes of a document
NodeIds(g) == { g.nodes[i].id : i \in 1..Len(g.nodes) }

\* nodeMap.has(id): nodeMap is rebuilt from graph on every change of graph
nodeMapHas(g, id) == g # NullGraph /\ id \in NodeIds(g)

\* nodeMap.get(id): Map.set keeps the last node of a given id
nodeMapGet(g, id) ==
  LET idx == { i \in 1..Len(g.nodes) : g.nodes[i].id = id }
  IN g.nodes[CHOOSE i \in idx : \A j \in idx : j <= i]

\* current = currentId ? nodeMap.get(currentId) : undefined  (defined or not)
HasCurrent == currentId # Null /\ currentId # "" /\ nodeMapHas(graph, currentId)

\* the viewer is rendered (not the blocking loading screen, not torn down)
Shown == ~crashed /\ graph # NullGraph /\ HasCurrent

\* transitions that takes every edge of the document, whatever its source
transitions_NoFilter(g, cur) ==
  IF Len(cur.transitions) > 0 THEN cur.transitions
  ELSE [i \in 1..Len(g.edges) |-> Transition(g.edges[i].label, g.edges[i].to)]

\* transitions: the node's own transitions, else the edges leaving it
transitions(g, cur) ==
  IF Len(cur.transitions) > 0 THEN cur.transitions
  ELSE LET fromEdges == SelectSeqBy(g.edges, "from", cur.id)
       IN [i \in 1..Len(fromEdges) |->
             Transition(fromEdges[i].label, fromEdges[i].to)]

\* the start node taken as nodes[0] without looking for a greeting node
StartOf_FirstNode(g) ==
  IF Len(g.nodes) = 0 \/ g.nodes[1].id = "" THEN Null ELSE g.nodes[1].id

\* nodes.find(n => n.type === "greeting")?.id || nodes[0]?.id, Null when
\* the result is undefined or the empty string
StartOf(g) ==
  LET gs == { i \in 1..Len(g.nodes) : g.nodes[i].type = "greeting" }
      first == CHOOSE i \in gs : \A j \in gs : i <= j
      gid == IF gs = {} THEN "" ELSE g.nodes[first].id
      nid == IF Len(g.nodes) = 0 THEN "" ELSE g.nodes[1].id
      start == IF gid # "" THEN gid ELSE nid
  IN IF start = "" THEN Null ELSE start

\* candidates of the load effect
Candidates(l) ==
  IF l = "pl" THEN <<"graph.pl.json", "graph.json">>
  ELSE <<"graph." \o l \o ".json">>

\* a new run of the load effect: the first fetch is issued at once
NewLoad(id, l) ==
  [id |-> id, lang |-> l, idx |-> 1, failed |-> 0,
   requested |-> <<Candidates(l)[1]>>, kinds |-> <<>>]

\* ------------------------------------------------------------------------
\* Viewer: handlers as functions of the state they read
\* ------------------------------------------------------------------------
Nav(c, h) == [currentId |-> c, history |-> h]

\* goTo that sets currentId and forgets setHistory
goTo_NoHistory(g, c, h, nextId) ==
  IF nextId = "" \/ ~nodeMapHas(g, nextId) THEN Nav(c, h)
  ELSE Nav(nextId, h)

\* goTo without the nodeMap.has(nextId) test
goTo_NoLookup(g, c, h, nextId) ==
  IF nextId = "" THEN Nav(c, h)
  ELSE Nav(nextId, Append(h, nextId))

\* goTo(nextId)
goTo(g, c, h, nextId) ==
  IF nextId = "" \/ ~nodeMapHas(g, nextId) THEN Nav(c, h)
  ELSE Nav(nextId, Append(h, nextId))

\* goBack that shortens history and forgets setCurrentId
goBack_KeepCurrent(c, h) ==
  IF Len(h) <= 1 THEN Nav(c, h)
  ELSE Nav(c, SubSeq(h, 1, Len(h) - 1))

\* goBack that takes the last element of history for the previous one
goBack_LastElement(c, h) ==
  IF Len(h) <= 1 THEN Nav(c, h)
  ELSE Nav(h[Len(h)], SubSeq(h, 1, Len(h) - 1))

\* goBack()
goBack(c, h) ==
  IF Len(h) <= 1 THEN Nav(c, h)
  ELSE Nav(h[Len(h) - 1], SubSeq(h, 1, Len(h) - 1))

\* goHome()
goHome(g, c, h) ==
  IF g = NullGraph THEN Nav(c, h)
  ELSE IF StartOf(g) # Null THEN Nav(StartOf(g), <<StartOf(g)>>)
       ELSE Nav(c, h)

\* the tail of the load effect once a document was read:
\* setGraph(loaded); setCurrentId(start || null); setHistory(start ? [start] : [])
loadStart(loaded) ==
  IF StartOf(loaded) # Null THEN Nav(StartOf(loaded), <<StartOf(loaded)>>)
  ELSE Nav(Null, <<>>)

\* a load effect whose catch branch installs an empty document
loadEffect_FallbackGraph(g, c, h, res, loaded) ==
  IF res \in {"all_candidates_failed", "null_body"}
  THEN [graph |-> DocEmpty, currentId |-> c, history |-> h, crashed |-> FALSE]
  ELSE IF res = "no_node_list"
  THEN [graph |-> loaded, currentId |-> c, history |-> h, crashed |-> TRUE]
  ELSE [graph |-> loaded, currentId |-> loadStart(loaded).currentId,
        history |-> loadStart(loaded).history, crashed |-> FALSE]

\* what the end of a run of the load effect does to the component state:
\*   all candidates failed, or the body is null: throw, nothing is set;
\*   a value without a node list: setGraph(loaded), then loaded.nodes.find
\*     throws, and the next render throws in nodeMap (graph.nodes.forEach);
\*   a document: setGraph, setCurrentId, setHistory
loadEffect(g, c, h, res, loaded) ==
  IF res \in {"all_candidates_failed", "null_body"}
  THEN [graph |-> g, currentId |-> c, history |-> h, crashed |-> FALSE]
  ELSE IF res = "no_node_list"
  THEN [graph |-> loaded, currentId |-> c, history |-> h, crashed |-> TRUE]
  ELSE [graph |-> loaded, currentId |-> loadStart(loaded).currentId,
        history |-> loadStart(loaded).history, crashed |-> FALSE]

\* how a finished run of the load effect is classified
LoadResult(kinds) ==
  LET last == kinds[Len(kinds)]
  IN IF last.kind \in FailureKinds THEN "all_candidates_failed"
     ELSE IF last.kind = "json_null" THEN "null_body"
     ELSE IF last.doc.kind # "graph" THEN "no_node_list"
     ELSE "loaded"

\* the ids a click can pass to goTo: a sidebar row or a transition button
Clickable ==
  IF ~Shown THEN {}
  ELSE NodeIds(graph)
    \cup { t.to : t \in SeqToSet(transitions(graph, nodeMapGet(graph, currentId))) }

RemoveAt(s, i) == SubSeq(s, 1, i - 1) \o SubSeq(s, i + 1, Len(s))

\* ------------------------------------------------------------------------
\* Viewer: actions
\* ------------------------------------------------------------------------
\* a loop that asks for the failed candidate once more
FetchNext_Retry(i, o) ==
  LET ld == loads[i] IN
  /\ o.kind \in FailureKinds
  /\ ld.failed < 1
  /\ loads' = [loads EXCEPT ![i] =
        [ld EXCEPT !.failed = ld.failed + 1,
                   !.requested = Append(ld.requested, Candidates(ld.lang)[ld.idx]),
                   !.kinds = Append(ld.kinds, o)]]
  /\ fetchCount' = fetchCount + 1
  /\ lastOp' = Op("fetchNext", ld.lang)
  /\ UNCHANGED <<lang, graph, currentId, history, started, logged, crashed,
                 startup, graphLang,
                 graphRun>>
  /\ UNCHANGED notViewer

\* a request of run i fails and the loop moves on to the next candidate
FetchNext(i, o) ==
  LET ld == loads[i] IN
  /\ o.kind \in FailureKinds
  /\ ld.idx < Len(Candidates(ld.lang))
  /\ loads' = [loads EXCEPT ![i] =
        [ld EXCEPT !.idx = ld.idx + 1,
                   !.failed = ld.failed + 1,
                   !.requested = Append(ld.requested, Candidates(ld.lang)[ld.idx + 1]),
                   !.kinds = Append(ld.kinds, o)]]
  /\ fetchCount' = fetchCount + 1
  /\ lastOp' = Op("fetchNext", ld.lang)
  /\ UNCHANGED <<lang, graph, currentId, history, started, logged, crashed,
                 startup, graphLang,
                 graphRun>>
  /\ UNCHANGED notViewer

\* the last request of run i comes back and the run ends
LoadDone(i, o) ==
  LET ld == loads[i]
      res == LoadResult(Append(ld.kinds, o))
      eff == loadEffect(graph, currentId, history, res, o.doc)
  IN
  /\ o.kind \in FailureKinds => ld.idx = Len(Candidates(ld.lang))
  /\ loads' = RemoveAt(loads, i)
  /\ startup' = IF ld.id = 1 THEN res ELSE startup
  /\ logged' = IF res = "loaded" THEN logged ELSE logged + 1
  /\ IF crashed
     THEN /\ lastOp' = Op("loadDoneUnmounted", res)
          /\ UNCHANGED <<graph, currentId, history, crashed, graphLang,
                 graphRun>>
     ELSE /\ lastOp' = Op("loadDone", res)
          /\ graph' = eff.graph
          /\ currentId' = eff.currentId
          /\ history' = eff.history
          /\ crashed' = eff.crashed
          /\ graphLang' = IF res \in {"loaded", "no_node_list"}
                          THEN ld.lang ELSE graphLang
          /\ graphRun' = IF res \in {"loaded", "no_node_list"}
                         THEN ld.id ELSE graphRun
  /\ UNCHANGED <<lang, started, fetchCount>>
  /\ UNCHANGED notViewer

GoTo(nextId) ==
  /\ Shown
  /\ Len(history) < MaxHist
  /\ currentId' = goTo(graph, currentId, history, nextId).currentId
  /\ history' = goTo(graph, currentId, history, nextId).history
  /\ lastOp' = Op("goTo", nextId)
  /\ UNCHANGED <<lang, graph, loads, started, fetchCount, logged, crashed,
                 startup, graphLang,
                 graphRun>>
  /\ UNCHANGED notViewer

GoBack ==
  /\ Shown
  /\ currentId' = goBack(currentId, history).currentId
  /\ history' = goBack(currentId, history).history
  /\ lastOp' = Op("goBack", "")
  /\ UNCHANGED <<lang, graph, loads, started, fetchCount, logged, crashed,
                 startup, graphLang,
                 graphRun>>
  /\ UNCHANGED notViewer

GoHome ==
  /\ Shown
  /\ currentId' = goHome(graph, currentId, history).currentId
  /\ history' = goHome(graph, currentId, history).history
  /\ lastOp' = Op("goHome", "")
  /\ UNCHANGED <<lang, graph, loads, started, fetchCount, logged, crashed,
                 startup, graphLang,
                 graphRun>>
  /\ UNCHANGED notViewer

\* a restart that runs the load effect again
Restart_Reload ==
  /\ Shown
  /\ started < MaxLoads
  /\ started' = started + 1
  /\ loads' = Append(loads, NewLoad(started + 1, lang))
  /\ fetchCount' = fetchCount + 1
  /\ lastOp' = Op("restart", "")
  /\ UNCHANGED <<lang, graph, currentId, history, logged, crashed, startup,
                 graphLang,
                 graphRun>>
  /\ UNCHANGED notViewer

\* restart(): setCurrentId(id => id) and a scroll
Restart ==
  /\ Shown
  /\ lastOp' = Op("restart", "")
  /\ UNCHANGED <<lang, graph, currentId, history, loads, started, fetchCount,
                 logged, crashed, startup, graphLang,
                 graphRun>>
  /\ UNCHANGED notViewer

\* the language select: setLang(l), after which the load effect runs again
SetLang(l) ==
  /\ Shown
  /\ l # lang
  /\ started < MaxLoads
  /\ lang' = l
  /\ started' = started + 1
  /\ loads' = Append(loads, NewLoad(started + 1, l))
  /\ fetchCount' = fetchCount + 1
  /\ lastOp' = Op("setLang", l)
  /\ UNCHANGED <<graph, currentId, history, logged, crashed, startup, graphLang,
                 graphRun>>
  /\ UNCHANGED notViewer

\* after the first render: the load effect has issued its first request
ViewerInit ==
  /\ lang = "pl"
  /\ graph = NullGraph
  /\ currentId = Null
  /\ history = <<>>
  /\ loads = <<NewLoad(1, "pl")>>
  /\ started = 1
  /\ fetchCount = 1
  /\ logged = 0
  /\ crashed = FALSE
  /\ startup = "pending"
  /\ graphLang = Null
  /\ graphRun = 0
  /\ lastOp = Op("mount", "")

ViewerNext ==
  \/ \E i \in 1..Len(loads), o \in Outcomes : FetchNext(i, o)
  \/ \E i \in 1..Len(loads), o \in Outcomes : LoadDone(i, o)
  \/ \E nextId \in Clickable : GoTo(nextId)
  \/ GoBack
  \/ GoHome
  \/ Restart
  \/ \E l \in Lang : SetLang(l)

\* ========================================================================
\* Graph editor (src/src/components/GraphEditor.tsx)
\* ========================================================================
\* Bounds of the editor model
MaxEdits == 3

\* the arrow that stands for a missing label (U+2192 in the source)
Arrow == "->"

\* a node of the canvas; data.text is kept as the list of its lines, that
\* is the string split at "\n" (the empty string is the list <<"">>)
RFNode(id, title, type, text) ==
  [id |-> id, title |-> title, type |-> type, text |-> text]

RFEdge(id, source, target, label) ==
  [id |-> id, source |-> source, target |-> target, label |-> label]

\* lines.join("\n"), as the list of lines of the resulting string
JoinLines(text) == IF text = <<>> THEN <<"">> ELSE text

\* string.split("\n").filter(Boolean)
SplitNonEmpty(lines) == SelectSeq(lines, LAMBDA l : l # "")

RECURSIVE TransitionEdges(_)
\* g.nodes.flatMap(n => (n.transitions ?? []).map(tr => ({from, to, label})))
TransitionEdges(nodes) ==
  IF nodes = <<>> THEN <<>>
  ELSE LET n == Head(nodes)
       IN [i \in 1..Len(n.transitions) |->
             Edge(n.id, n.transitions[i].to, n.transitions[i].label)]
          \o TransitionEdges(Tail(nodes))

\* `e-${i}-${e.from}-${e.to}` with the zero-based index i
EdgeId(i, from, to) == "e-" \o ToString(i) \o "-" \o from \o "-" \o to

\* toReactFlow that takes every label as it is, the empty one included
toReactFlow_KeepLabel(g) ==
  LET edgeList == IF Len(g.edges) > 0 THEN g.edges ELSE TransitionEdges(g.nodes)
  IN [nodes |-> [i \in 1..Len(g.nodes) |->
                   RFNode(g.nodes[i].id, g.nodes[i].title, g.nodes[i].type,
                          JoinLines(g.nodes[i].text))],
      edges |-> [i \in 1..Len(edgeList) |->
                   RFEdge(EdgeId(i - 1, edgeList[i].from, edgeList[i].to),
                          edgeList[i].from, edgeList[i].to, edgeList[i].label)]]

\* toReactFlow that adds the node transitions to the explicit edges
toReactFlow_Merge(g) ==
  LET edgeList == g.edges \o TransitionEdges(g.nodes)
  IN [nodes |-> [i \in 1..Len(g.nodes) |->
                   RFNode(g.nodes[i].id, g.nodes[i].title, g.nodes[i].type,
                          JoinLines(g.nodes[i].text))],
      edges |-> [i \in 1..Len(edgeList) |->
                   RFEdge(EdgeId(i - 1, edgeList[i].from, edgeList[i].to),
                          edgeList[i].from, edgeList[i].to,
                          IF edgeList[i].label = "" THEN Arrow
                          ELSE edgeList[i].label)]]

\* toReactFlow(g): GraphData -> canvas
toReactFlow(g) ==
  LET edgeList == IF Len(g.edges) > 0 THEN g.edges ELSE TransitionEdges(g.nodes)
  IN [nodes |-> [i \in 1..Len(g.nodes) |->
                   RFNode(g.nodes[i].id, g.nodes[i].title, g.nodes[i].type,
                          JoinLines(g.nodes[i].text))],
      edges |-> [i \in 1..Len(edgeList) |->
                   RFEdge(EdgeId(i - 1, edgeList[i].from, edgeList[i].to),
                          edgeList[i].from, edgeList[i].to,
                          IF edgeList[i].label = "" THEN Arrow
                          ELSE edgeList[i].label)]]

\* fromReactFlow that forgets prev.ui
fromReactFlow_NoUi(nodes, edges, prev) ==
  [kind |-> "graph",
   nodes |-> [i \in 1..Len(nodes) |->
                GraphNode(nodes[i].id, nodes[i].title, nodes[i].type,
                          SplitNonEmpty(nodes[i].text), <<>>)],
   edges |-> [i \in 1..Len(edges) |->
                Edge(edges[i].source, edges[i].target, edges[i].label)],
   ui |-> "none"]

\* fromReactFlow(nodes, edges, prev): canvas -> GraphData
fromReactFlow(nodes, edges, prev) ==
  [kind |-> "graph",
   nodes |-> [i \in 1..Len(nodes) |->
                GraphNode(nodes[i].id, nodes[i].title, nodes[i].type,
                          SplitNonEmpty(nodes[i].text), <<>>)],
   edges |-> [i \in 1..Len(edges) |->
                Edge(edges[i].source, edges[i].target, edges[i].label)],
   ui |-> prev.ui]

\* a file: JSON.stringify(doc, null, 2), or text that is not JSON
JSONstringify(doc) == [kind |-> "json", doc |-> doc]

NotJSON == [kind |-> "not_json", doc |-> NullGraph]

NoFile == [kind |-> "none", doc |-> NullGraph]

NoCanvas == [nodes |-> <<>>, edges |-> <<>>]

\* JSON.parse(txt) followed by toReactFlow(parsed) succeeds
Importable(file) == file.kind = "json" /\ file.doc.kind = "graph"

\* addEdge of reactflow: the id it gives a connection without handle ids
ConnectionId(source, target) == "reactflow__edge-" \o source \o "-" \o target

\* addEdge({...c, label: "→", markerEnd}, eds): no second edge between the
\* same source and target
addEdge(source, target, eds) ==
  IF \E i \in 1..Len(eds) : eds[i].source = source /\ eds[i].target = target
  THEN eds
  ELSE Append(eds, RFEdge(ConnectionId(source, target), source, target, Arrow))

\* the node appended by addNode
NewNode(id) == RFNode(id, "New", "snippet", <<"">>)

\* the documents the editor is opened on
\* a document without explicit edges: the canvas edges come from transitions
DocTransitionsOnly ==
  GraphData(
    << GraphNode("a", "Intro", "greeting", <<"p", "q">>, <<Transition("", "b")>>),
       GraphNode("b", "End", "snippet", <<>>, <<>>) >>,
    <<>>,
    "left")

\* a document with explicit edges, one of them without a label, and a node
\* that also has transitions of its own
DocExplicitEdges ==
  GraphData(
    << GraphNode("a", "Intro", "greeting", <<"p">>, <<Transition("x", "b")>>),
       GraphNode("b", "End", "snippet", <<>>, <<>>) >>,
    << Edge("a", "b", "go"), Edge("b", "a", "") >>,
    "right")

EditorDocs == {DocExplicitEdges, DocTransitionsOnly}

\* ids genId can return (random in the source)
GenIds == {"n_1", "n_2"}

\* what the property panel can write into the selected node
Patches ==
  { [field |-> "title", val |-> <<"T">>],
    [field |-> "type", val |-> <<"router">>],
    [field |-> "text", val |-> <<"p", "", "q">>],
    [field |-> "text", val |-> <<"">>] }

\* what prompt() can return for an edge label; Null is a cancelled prompt
Labels == {"", Null}

\* files the user can pick for an import, beside an exported one
UploadFiles ==
  { NotJSON, JSONstringify(NoNodeList), JSONstringify(DocNoGreeting) }

ApplyPatch(n, patch) ==
  IF patch.field = "title" THEN [n EXCEPT !.title = patch.val[1]]
  ELSE IF patch.field = "type" THEN [n EXCEPT !.type = patch.val[1]]
  ELSE [n EXCEPT !.text = patch.val]

CanvasIds == { edNodes[i].id : i \in 1..Len(edNodes) }

\* what the parent does with the document passed to onChange: it becomes
\* the in-memory document, and so the next value of the editor
parentOnChange(value, next) == next

\* opening without the reset effect: the canvas of the last session stays
EdOpen_KeepCanvas ==
  /\ ~edOpen
  /\ edOpen' = TRUE
  /\ edLastOp' = Op("open", "")
  /\ UNCHANGED <<edNodes, edEdges, selectedNodeId, edValue, onChangeCount,
                 onChangeArg, exported, uploads, importedFrom, alerts, edits>>
  /\ UNCHANGED notEditor

\* the reset effect: runs when open or the conversion of value has changed
EdOpen ==
  /\ ~edOpen
  /\ edOpen' = TRUE
  /\ edNodes' = toReactFlow(edValue).nodes
  /\ edEdges' = toReactFlow(edValue).edges
  /\ selectedNodeId' = Null
  /\ edLastOp' = Op("open", "")
  /\ UNCHANGED <<edValue, onChangeCount, onChangeArg, exported, uploads,
                 importedFrom, alerts, edits>>
  /\ UNCHANGED notEditor

\* the close button: onClose()
EdClose ==
  /\ edOpen
  /\ edOpen' = FALSE
  /\ edLastOp' = Op("close", "")
  /\ UNCHANGED <<edValue, edNodes, edEdges, selectedNodeId, onChangeCount,
                 onChangeArg, exported, uploads, importedFrom, alerts, edits>>
  /\ UNCHANGED notEditor

\* onNodeClick / onPaneClick / the deselect button
SelectNode(id) ==
  /\ edOpen
  /\ selectedNodeId' = id
  /\ edLastOp' = Op("select", id)
  /\ UNCHANGED <<edOpen, edValue, edNodes, edEdges, onChangeCount, onChangeArg,
                 exported, uploads, importedFrom, alerts, edits>>
  /\ UNCHANGED notEditor

OnConnect(source, target) ==
  /\ edOpen
  /\ edits < MaxEdits
  /\ edits' = edits + 1
  /\ edEdges' = IF source = "" \/ target = "" THEN edEdges
                ELSE addEdge(source, target, edEdges)
  /\ edLastOp' = Op("onConnect", source)
  /\ UNCHANGED <<edOpen, edValue, edNodes, selectedNodeId, onChangeCount,
                 onChangeArg, exported, uploads, importedFrom, alerts>>
  /\ UNCHANGED notEditor

AddNode(id) ==
  /\ edOpen
  /\ edits < MaxEdits
  /\ edits' = edits + 1
  /\ edNodes' = Append(edNodes, NewNode(id))
  /\ edLastOp' = Op("addNode", id)
  /\ UNCHANGED <<edOpen, edValue, edEdges, selectedNodeId, onChangeCount,
                 onChangeArg, exported, uploads, importedFrom, alerts>>
  /\ UNCHANGED notEditor

\* deleteSelection that forgets the edges of the node
DeleteSelection_KeepEdges ==
  /\ edOpen
  /\ edits < MaxEdits
  /\ edits' = edits + 1
  /\ edLastOp' = Op("deleteSelection", selectedNodeId)
  /\ IF selectedNodeId # Null /\ selectedNodeId # ""
     THEN /\ edNodes' = SelectSeq(edNodes, LAMBDA n : n.id # selectedNodeId)
          /\ selectedNodeId' = Null
          /\ UNCHANGED edEdges
     ELSE UNCHANGED <<edEdges, edNodes, selectedNodeId>>
  /\ UNCHANGED <<edOpen, edValue, onChangeCount, onChangeArg, exported, uploads,
                 importedFrom, alerts>>
  /\ UNCHANGED notEditor

\* deleteSelection that drops only the edges leaving the node
DeleteSelection_SourceOnly ==
  /\ edOpen
  /\ edits < MaxEdits
  /\ edits' = edits + 1
  /\ edLastOp' = Op("deleteSelection", selectedNodeId)
  /\ IF selectedNodeId # Null /\ selectedNodeId # ""
     THEN /\ edEdges' = SelectSeq(edEdges, LAMBDA e : e.source # selectedNodeId)
          /\ edNodes' = SelectSeq(edNodes, LAMBDA n : n.id # selectedNodeId)
          /\ selectedNodeId' = Null
     ELSE UNCHANGED <<edEdges, edNodes, selectedNodeId>>
  /\ UNCHANGED <<edOpen, edValue, onChangeCount, onChangeArg, exported, uploads,
                 importedFrom, alerts>>
  /\ UNCHANGED notEditor

\* deleteSelection()
DeleteSelection ==
  /\ edOpen
  /\ edits < MaxEdits
  /\ edits' = edits + 1
  /\ edLastOp' = Op("deleteSelection", selectedNodeId)
  /\ IF selectedNodeId # Null /\ selectedNodeId # ""
     THEN /\ edEdges' = SelectSeq(edEdges, LAMBDA e :
                 e.source # selectedNodeId /\ e.target # selectedNodeId)
          /\ edNodes' = SelectSeq(edNodes, LAMBDA n : n.id # selectedNodeId)
          /\ selectedNodeId' = Null
     ELSE UNCHANGED <<edEdges, edNodes, selectedNodeId>>
  /\ UNCHANGED <<edOpen, edValue, onChangeCount, onChangeArg, exported, uploads,
                 importedFrom, alerts>>
  /\ UNCHANGED notEditor

UpdateNodeData(patch) ==
  /\ edOpen
  /\ selectedNodeId \in CanvasIds
  /\ edits < MaxEdits
  /\ edits' = edits + 1
  /\ edNodes' = IF selectedNodeId = "" THEN edNodes
                ELSE [i \in 1..Len(edNodes) |->
                        IF edNodes[i].id = selectedNodeId
                        THEN ApplyPatch(edNodes[i], patch) ELSE edNodes[i]]
  /\ edLastOp' = Op("updateNodeData", patch.field)
  /\ UNCHANGED <<edOpen, edValue, edEdges, selectedNodeId, onChangeCount,
                 onChangeArg, exported, uploads, importedFrom, alerts>>
  /\ UNCHANGED notEditor

EditEdgeLabel(edgeId, label) ==
  /\ edOpen
  /\ edits < MaxEdits
  /\ edits' = edits + 1
  /\ edEdges' = IF label = Null THEN edEdges
                ELSE [i \in 1..Len(edEdges) |->
                        IF edEdges[i].id = edgeId
                        THEN [edEdges[i] EXCEPT !.label = label] ELSE edEdges[i]]
  /\ edLastOp' = Op("editEdgeLabel", edgeId)
  /\ UNCHANGED <<edOpen, edValue, edNodes, selectedNodeId, onChangeCount,
                 onChangeArg, exported, uploads, importedFrom, alerts>>
  /\ UNCHANGED notEditor

\* saveBack: onChange(fromReactFlow(nodes, edges, value)); the parent stores
\* the document, value changes and the reset effect of the open editor runs
SaveBack ==
  LET next == fromReactFlow(edNodes, edEdges, edValue) IN
  /\ edOpen
  /\ edits < MaxEdits
  /\ edits' = edits + 1
  /\ onChangeCount' = onChangeCount + 1
  /\ onChangeArg' = next
  /\ edValue' = parentOnChange(edValue, next)
  /\ edNodes' = toReactFlow(parentOnChange(edValue, next)).nodes
  /\ edEdges' = toReactFlow(parentOnChange(edValue, next)).edges
  /\ selectedNodeId' = Null
  /\ edLastOp' = Op("saveBack", "")
  /\ UNCHANGED <<edOpen, exported, uploads, importedFrom, alerts>>
  /\ UNCHANGED notEditor

\* downloadJSON: the file graph.edited.json
DownloadJSON ==
  /\ edOpen
  /\ edits < MaxEdits
  /\ edits' = edits + 1
  /\ exported' = [file |-> JSONstringify(fromReactFlow(edNodes, edEdges, edValue)),
                  from |-> [nodes |-> edNodes, edges |-> edEdges],
                  isExport |-> TRUE]
  /\ edLastOp' = Op("downloadJSON", "")
  /\ UNCHANGED <<edOpen, edValue, edNodes, edEdges, selectedNodeId,
                 onChangeCount, onChangeArg, uploads, importedFrom, alerts>>
  /\ UNCHANGED notEditor

\* uploadJSON(file): file.text() is pending
UploadStart(pick) ==
  /\ edOpen
  /\ uploads = <<>>
  /\ edits < MaxEdits
  /\ edits' = edits + 1
  /\ pick.file.kind # "none"
  /\ uploads' = Append(uploads, pick)
  /\ edLastOp' = Op("uploadJSON", pick.file.kind)
  /\ UNCHANGED <<edOpen, edValue, edNodes, edEdges, selectedNodeId,
                 onChangeCount, onChangeArg, exported, importedFrom, alerts>>
  /\ UNCHANGED notEditor

\* uploadJSON that empties the canvas before it converts the document
UploadDone_ClearFirst ==
  /\ uploads # <<>>
  /\ LET pick == Head(uploads) IN
     /\ uploads' = Tail(uploads)
     /\ IF Importable(pick.file)
        THEN /\ edNodes' = toReactFlow(pick.file.doc).nodes
             /\ edEdges' = toReactFlow(pick.file.doc).edges
             /\ importedFrom' = pick.from
             /\ edLastOp' = Op("uploadDone", IF pick.isExport THEN "exported"
                                              ELSE "file")
             /\ UNCHANGED alerts
        ELSE /\ alerts' = alerts + 1
             /\ edLastOp' = Op("uploadFailed", pick.file.kind)
             /\ edNodes' = IF pick.file.kind = "json" THEN <<>> ELSE edNodes
             /\ UNCHANGED <<edEdges, importedFrom>>
  /\ UNCHANGED <<edOpen, edValue, selectedNodeId, onChangeCount, onChangeArg,
                 exported, edits>>
  /\ UNCHANGED notEditor

\* the continuation of uploadJSON: parse, convert, setNodes, setEdges, or
\* the alert of the catch
UploadDone ==
  /\ uploads # <<>>
  /\ LET pick == Head(uploads) IN
     /\ uploads' = Tail(uploads)
     /\ IF Importable(pick.file)
        THEN /\ edNodes' = toReactFlow(pick.file.doc).nodes
             /\ edEdges' = toReactFlow(pick.file.doc).edges
             /\ importedFrom' = pick.from
             /\ edLastOp' = Op("uploadDone", IF pick.isExport THEN "exported"
                                              ELSE "file")
             /\ UNCHANGED alerts
        ELSE /\ alerts' = alerts + 1
             /\ edLastOp' = Op("uploadFailed", pick.file.kind)
             /\ UNCHANGED <<edNodes, edEdges, importedFrom>>
  /\ UNCHANGED <<edOpen, edValue, selectedNodeId, onChangeCount, onChangeArg,
                 exported, edits>>
  /\ UNCHANGED notEditor

\* the editor is mounted closed on one of the documents
EditorInit ==
  /\ edOpen = FALSE
  /\ edValue \in EditorDocs
  /\ edNodes = toReactFlow(edValue).nodes
  /\ edEdges = toReactFlow(edValue).edges
  /\ selectedNodeId = Null
  /\ onChangeCount = 0
  /\ onChangeArg = NullGraph
  /\ exported = [file |-> NoFile, from |-> NoCanvas, isExport |-> FALSE]
  /\ uploads = <<>>
  /\ importedFrom = NoCanvas
  /\ alerts = 0
  /\ edits = 0
  /\ edLastOp = Op("mount", "")

EditorNext ==
  \/ EdOpen
  \/ EdClose
  \/ \E id \in CanvasIds \cup {Null} : SelectNode(id)
  \/ \E s \in CanvasIds, t \in CanvasIds : OnConnect(s, t)
  \/ \E id \in GenIds : AddNode(id)
  \/ DeleteSelection
  \/ \E patch \in Patches : UpdateNodeData(patch)
  \/ \E i \in 1..Len(edEdges), label \in Labels : EditEdgeLabel(edEdges[i].id, label)
  \/ SaveBack
  \/ DownloadJSON
  \/ \E pick \in { [file |-> f, from |-> NoCanvas, isExport |-> FALSE] :
                      f \in UploadFiles } \cup {exported} :
       UploadStart(pick)
  \/ UploadDone


\* ------------------------------------------------------------------------
\* Editor: properties
\* ------------------------------------------------------------------------
\* doc is the document of the canvas (nodes, edges) with the ui block ui
IsDocumentOf(doc, nodes, edges, ui) ==
  /\ doc.kind = "graph"
  /\ doc.ui = ui
  /\ Len(doc.nodes) = Len(nodes)
  /\ \A i \in 1..Len(nodes) :
       /\ doc.nodes[i].id = nodes[i].id
       /\ doc.nodes[i].title = nodes[i].title
       /\ doc.nodes[i].type = nodes[i].type
       /\ doc.nodes[i].text = SelectSeq(nodes[i].text, LAMBDA l : l # "")
  /\ Len(doc.edges) = Len(edges)
  /\ \A i \in 1..Len(edges) :
       /\ doc.edges[i].from = edges[i].source
       /\ doc.edges[i].to = edges[i].target
       /\ doc.edges[i].label = edges[i].label

\* C7: only saveBack calls onChange, once, with the document of the current
\* canvas and the ui block of the incoming value; every other handler of
\* the editor leaves onChange uncalled.
C7_OnlySaveBackCallsOnChange ==
  [][ /\ (onChangeCount' # onChangeCount \/ onChangeArg' # onChangeArg)
           => edLastOp'.op = "saveBack"
      /\ edLastOp'.op = "saveBack"
           => /\ onChangeCount' = onChangeCount + 1
              /\ IsDocumentOf(onChangeArg', edNodes, edEdges, edValue.ui) ]_vars

\* a canvas with an added node was saved back, the ui block carried over
C7_Witness ==
  /\ edLastOp.op = "saveBack"
  /\ onChangeCount = 1
  /\ onChangeArg.ui = "right"
  /\ Len(onChangeArg.nodes) = 3

AfterRoundTrip == edLastOp = Op("uploadDone", "exported")

SameEdges(es, fs) ==
  /\ Len(es) = Len(fs)
  /\ \A i \in 1..Len(es) :
       /\ es[i].source = fs[i].source
       /\ es[i].target = fs[i].target
       /\ es[i].label = fs[i].label

\* C8 (as stated): importing the exported file yields nodes with the same
\* ids, titles, types and text, and edges with the same source, target and
\* label, in the same order as at the export.
C8_Original ==
  AfterRoundTrip =>
    (edNodes = importedFrom.nodes /\ SameEdges(edEdges, importedFrom.edges))

\* a text without its empty lines (the empty text when none is left)
WithoutEmptyLines(text) ==
  LET kept == SelectSeq(text, LAMBDA l : l # "")
  IN IF kept = <<>> THEN <<"">> ELSE kept

\* C8 (amended): importing the exported file yields nodes with the same ids,
\* titles and types and with the text less its empty lines, and edges with
\* the same source and target and the same label, except that an empty label
\* comes back as the arrow, all in the same order as at the export.
C8_RoundTrip ==
  AfterRoundTrip =>
    /\ Len(edNodes) = Len(importedFrom.nodes)
    /\ \A i \in 1..Len(edNodes) :
         /\ edNodes[i].id = importedFrom.nodes[i].id
         /\ edNodes[i].title = importedFrom.nodes[i].title
         /\ edNodes[i].type = importedFrom.nodes[i].type
         /\ edNodes[i].text = WithoutEmptyLines(importedFrom.nodes[i].text)
    /\ Len(edEdges) = Len(importedFrom.edges)
    /\ \A i \in 1..Len(edEdges) :
         /\ edEdges[i].source = importedFrom.edges[i].source
         /\ edEdges[i].target = importedFrom.edges[i].target
         /\ edEdges[i].label = IF importedFrom.edges[i].label = "" THEN Arrow
                               ELSE importedFrom.edges[i].label

\* a canvas holding a text with an empty line and labelled edges went
\* through export and import
C8_Witness ==
  /\ AfterRoundTrip
  /\ \E i \in 1..Len(edNodes) :
       /\ importedFrom.nodes[i].text = <<"p", "", "q">>
       /\ edNodes[i].text = <<"p", "q">>
  /\ \E i \in 1..Len(edEdges) : edEdges[i].label = "go"

\* ========================================================================
\* Notes panel (src/src/components/CommentPanel.tsx, src/unnamed/part_003)
\* ========================================================================
NoteVariants == {"lazy", "effect"}

\* values of the prop graphKey and texts of the note
NoteKeys == {"graph", "other"}

NoteTexts == {"", "x", "y"}

\* storageKey: `notes:${graphKey}` in CommentPanel.tsx,
\* `sg:notes:${graphKey}` in part_003
storageKey(variant, graphKey) ==
  IF variant = "lazy" THEN "notes:" \o graphKey ELSE "sg:notes:" \o graphKey

StorageKeys == { storageKey(v, k) : v \in NoteVariants, k \in NoteKeys }

NoPending == [set |-> FALSE, val |-> "", cause |-> ""]

Pending(val, cause) == [set |-> TRUE, val |-> val, cause |-> cause]

\* a saving effect that never reaches the storage
setItem_Skipped(store, key, val, ok) == store

\* localStorage.setItem(key, val); the store is left as it was when it throws
setItem(store, key, val, ok) ==
  IF ok THEN [store EXCEPT ![key] = val] ELSE store

\* localStorage.getItem(key) ?? "", and "" when the access throws
getItemOrEmpty(store, key, ok) ==
  IF ok /\ store[key] # Null THEN store[key] ELSE ""

\* mount of the panel of CommentPanel.tsx: the state is read from the
\* storage, then the saving effect writes it back
NoteMountLazy(ok) ==
  /\ ~noteMounted
  /\ noteVariant = "lazy"
  /\ noteMounted' = TRUE
  /\ noteValue' = getItemOrEmpty(noteStore, storageKey(noteVariant, noteKey), ok)
  /\ noteStore' = setItem(noteStore, storageKey(noteVariant, noteKey), noteValue', ok)
  /\ noteStorageFailed' = (noteStorageFailed \/ ~ok)
  /\ noteLastOp' = Op("mount", "")
  /\ UNCHANGED <<noteVariant, noteKey, notePending, noteShownBefore, noteReloaded>>
  /\ UNCHANGED notNotes

\* mount of the panel of part_003: the state starts empty; the loading
\* effect queues setValue(saved), the saving effect writes the empty state;
\* a throwing storage access is not caught and takes the tree down
NoteMountEffect(ok) ==
  LET key == storageKey(noteVariant, noteKey)
      saved == noteStore[key]
  IN
  /\ ~noteMounted
  /\ noteVariant = "effect"
  /\ noteValue' = ""
  /\ IF ok
     THEN /\ noteMounted' = TRUE
          /\ notePending' = IF saved # Null /\ saved # ""
                            THEN Pending(saved, "mount") ELSE NoPending
          /\ noteStore' = setItem(noteStore, key, "", ok)
          /\ noteLastOp' = Op("mount", "")
          /\ UNCHANGED noteStorageFailed
     ELSE /\ noteStorageFailed' = TRUE
          /\ noteLastOp' = Op("crash", "mount")
          /\ UNCHANGED <<noteMounted, notePending, noteStore>>
  /\ UNCHANGED <<noteVariant, noteKey, noteShownBefore, noteReloaded>>
  /\ UNCHANGED notNotes

\* the render that applies the queued setValue(saved), and its saving effect
NoteRerender(ok) ==
  /\ noteMounted
  /\ notePending.set
  /\ notePending' = NoPending
  /\ IF ok
     THEN /\ noteValue' = notePending.val
          /\ noteStore' = setItem(noteStore, storageKey(noteVariant, noteKey),
                                  notePending.val, ok)
          /\ noteLastOp' = Op("rerender", notePending.cause)
          /\ UNCHANGED <<noteMounted, noteStorageFailed>>
     ELSE /\ noteMounted' = FALSE
          /\ noteValue' = ""
          /\ noteStorageFailed' = TRUE
          /\ noteLastOp' = Op("crash", "rerender")
          /\ UNCHANGED noteStore
  /\ UNCHANGED <<noteVariant, noteKey, noteShownBefore, noteReloaded>>
  /\ UNCHANGED notNotes

\* the textarea's onChange: setValue(v), then the saving effect
NoteEdit(v, ok) ==
  /\ noteMounted
  /\ v # noteValue
  /\ notePending' = NoPending
  /\ IF ok \/ noteVariant = "lazy"
     THEN /\ noteValue' = v
          /\ noteStore' = setItem(noteStore, storageKey(noteVariant, noteKey), v, ok)
          /\ noteStorageFailed' = (noteStorageFailed \/ ~ok)
          /\ noteLastOp' = Op("edit", v)
          /\ UNCHANGED noteMounted
     ELSE /\ noteMounted' = FALSE
          /\ noteValue' = ""
          /\ noteStorageFailed' = TRUE
          /\ noteLastOp' = Op("crash", "edit")
          /\ UNCHANGED noteStore
  /\ UNCHANGED <<noteVariant, noteKey, noteShownBefore, noteReloaded>>
  /\ UNCHANGED notNotes

\* the page is left or reloaded: the panel and its state are gone
NoteUnmount ==
  /\ noteMounted
  /\ noteMounted' = FALSE
  /\ noteShownBefore' = noteValue
  /\ noteReloaded' = TRUE
  /\ noteValue' = ""
  /\ notePending' = NoPending
  /\ noteLastOp' = Op("unmount", "")
  /\ UNCHANGED <<noteVariant, noteKey, noteStore, noteStorageFailed>>
  /\ UNCHANGED notNotes

\* the parent passes another graphKey: storageKey changes and the effects
\* that depend on it run again with the state of the old key
NoteSetKey(k, ok) ==
  LET key == storageKey(noteVariant, k)
      saved == noteStore[key]
  IN
  /\ noteMounted
  /\ ~notePending.set
  /\ k # noteKey
  /\ noteKey' = k
  /\ IF ok \/ noteVariant = "lazy"
     THEN /\ notePending' = IF noteVariant = "effect" /\ saved # Null /\ saved # noteValue
                            THEN Pending(saved, "key") ELSE NoPending
          /\ noteStore' = setItem(noteStore, key, noteValue, ok)
          /\ noteStorageFailed' = (noteStorageFailed \/ ~ok)
          /\ noteLastOp' = Op("setKey", k)
          /\ UNCHANGED <<noteMounted, noteValue>>
     ELSE /\ noteMounted' = FALSE
          /\ noteValue' = ""
          /\ noteStorageFailed' = TRUE
          /\ noteLastOp' = Op("crash", "setKey")
          /\ UNCHANGED <<notePending, noteStore>>
  /\ UNCHANGED <<noteVariant, noteShownBefore, noteReloaded>>
  /\ UNCHANGED notNotes

\* the panel after its first mount over an empty storage
NotesInit ==
  /\ noteVariant \in NoteVariants
  /\ noteMounted = TRUE
  /\ noteKey = "graph"
  /\ noteValue = ""
  /\ notePending = NoPending
  /\ noteStore = [k \in StorageKeys |->
                    IF k = storageKey(noteVariant, "graph") THEN "" ELSE Null]
  /\ noteShownBefore = ""
  /\ noteReloaded = FALSE
  /\ noteStorageFailed = FALSE
  /\ noteLastOp = Op("mount", "")

NotesNext ==
  \/ \E ok \in BOOLEAN : NoteMountLazy(ok)
  \/ \E ok \in BOOLEAN : NoteMountEffect(ok)
  \/ \E ok \in BOOLEAN : NoteRerender(ok)
  \/ \E v \in NoteTexts, ok \in BOOLEAN : NoteEdit(v, ok)
  \/ NoteUnmount
  \/ \E k \in NoteKeys, ok \in BOOLEAN : NoteSetKey(k, ok)

\* ------------------------------------------------------------------------
\* Notes panel: properties
\* ------------------------------------------------------------------------
\* the panel has settled after a mount that followed an unmount
AfterReload ==
  /\ noteMounted
  /\ noteReloaded
  /\ ~notePending.set
  /\ (noteLastOp.op = "mount" \/ noteLastOp = Op("rerender", "mount"))

\* C9: as long as no storage access has failed, the note shown after a
\* reload is the note shown just before it, and after every edit the value
\* stored under the panel's key is the value shown.
C9_NotePersists ==
  ~noteStorageFailed =>
    /\ (noteLastOp.op = "edit" =>
          noteStore[storageKey(noteVariant, noteKey)] = noteValue)
    /\ (AfterReload => noteValue = noteShownBefore)

\* a non-empty note has come back after a reload
C9_Witness ==
  /\ AfterReload
  /\ ~noteStorageFailed
  /\ noteValue = "x"
  /\ noteShownBefore = "x"

\* ========================================================================
\* Pinned nodes (src/src/App.tsx togglePinned, Sidebar.tsx usePinned)
\* ========================================================================
\* ids of the rows whose pin button can be clicked
PinIds == {"a", "b", "c"}

NoItem == [present |-> FALSE, ids |-> <<>>]

\* JSON.stringify(pinnedIds) as the stored item
PinsJSON(ids) == [present |-> TRUE, ids |-> ids]

\* raw ? JSON.parse(raw) : [], and [] when the access throws
readPins(item, ok) == IF ok /\ item.present THEN item.ids ELSE <<>>

RECURSIVE Dedup(_)
\* Array.from(new Set(s)): first occurrences, in order
Dedup(s) ==
  IF s = <<>> THEN <<>>
  ELSE LET init == Dedup(SubSeq(s, 1, Len(s) - 1))
           last == s[Len(s)]
       IN IF last \in SeqToSet(init) THEN init ELSE Append(init, last)

\* a toggle that only ever adds
togglePinned_AddOnly(prev, id) ==
  IF id \in SeqToSet(prev) THEN Dedup(prev) ELSE Append(Dedup(prev), id)

\* togglePinned(id): the state updater
togglePinned(prev, id) ==
  IF id \in SeqToSet(prev)
  THEN SelectSeq(Dedup(prev), LAMBDA x : x # id)
  ELSE Append(Dedup(prev), id)

\* the pin button, then the saving effect (its error is swallowed)
PinToggle(id, ok) ==
  /\ pinMounted
  /\ pinnedIds' = togglePinned(pinnedIds, id)
  /\ pinStore' = IF ok THEN PinsJSON(pinnedIds') ELSE pinStore
  /\ pinStorageFailed' = (pinStorageFailed \/ ~ok)
  /\ pinLastOp' = Op("toggle", id)
  /\ UNCHANGED <<pinMounted, pinsBefore>>
  /\ UNCHANGED notPins

\* the page is left or reloaded
PinUnmount ==
  /\ pinMounted
  /\ pinMounted' = FALSE
  /\ pinsBefore' = SeqToSet(pinnedIds)
  /\ pinnedIds' = <<>>
  /\ pinLastOp' = Op("unmount", "")
  /\ UNCHANGED <<pinStore, pinStorageFailed>>
  /\ UNCHANGED notPins

\* mount: the state is read back from the storage, then the saving effect
PinMount(ok) ==
  /\ ~pinMounted
  /\ pinMounted' = TRUE
  /\ pinnedIds' = readPins(pinStore, ok)
  /\ pinStore' = IF ok THEN PinsJSON(pinnedIds') ELSE pinStore
  /\ pinStorageFailed' = (pinStorageFailed \/ ~ok)
  /\ pinLastOp' = Op("mount", "")
  /\ UNCHANGED pinsBefore
  /\ UNCHANGED notPins

\* before the first mount, over an empty storage
PinsInit ==
  /\ pinMounted = FALSE
  /\ pinnedIds = <<>>
  /\ pinStore = NoItem
  /\ pinsBefore = {}
  /\ pinStorageFailed = FALSE
  /\ pinLastOp = Op("init", "")

PinsNext ==
  \/ \E id \in PinIds, ok \in BOOLEAN : PinToggle(id, ok)
  \/ PinUnmount
  \/ \E ok \in BOOLEAN : PinMount(ok)

\* ------------------------------------------------------------------------
\* Pinned nodes: properties
\* ------------------------------------------------------------------------
ToggleAddsOrRemoves ==
  pinLastOp'.op = "toggle" =>
    SeqToSet(pinnedIds') =
      IF pinLastOp'.arg \in SeqToSet(pinnedIds)
      THEN SeqToSet(pinnedIds) \ {pinLastOp'.arg}
      ELSE SeqToSet(pinnedIds) \cup {pinLastOp'.arg}

Str_Ab == <<"A", "b">>

Str_B1 == <<"B", "1", ":">>

Str_Ec == <<"e^", " ", "c">>

\* a label of characters that are neither latin letters nor digits
Str_Marks == <<"#", " ", ":">>

\* String.prototype.toLowerCase on one character
toLowerCase(ch) ==
  IF ch = "A" THEN "a" ELSE IF ch = "B" THEN "b" ELSE ch

\* normalize("NFKD") followed by the removal of U+0300..U+036F
stripDiacritics(ch) == IF ch = "e^" THEN "e" ELSE ch

AlphaNum == {"a", "b", "c", "e", "x", "1"}

\* normalize(s): NFKD, no combining marks, lower case, only [a-z0-9], and
\* a trailing colon dropped
normalize(s) ==
  LET lowered == [i \in 1..Len(s) |-> toLowerCase(stripDiacritics(s[i]))]
      kept == SelectSeq(lowered, LAMBDA ch : ch \in AlphaNum)
  IN IF kept # <<>> /\ kept[Len(kept)] = ":"
     THEN SubSeq(kept, 1, Len(kept) - 1) ELSE kept

\* t.startsWith(l)
startsWith(t, l) == Len(l) <= Len(t) /\ SubSeq(t, 1, Len(l)) = l

\* s.toLowerCase()
lowerCase(s) == [i \in 1..Len(s) |-> toLowerCase(s[i])]

RECURSIVE trim(_)
\* s.trim(): no white space at either end
trim(s) ==
  IF s = <<>> THEN s
  ELSE IF Head(s) = " " THEN trim(Tail(s))
  ELSE IF s[Len(s)] = " " THEN trim(SubSeq(s, 1, Len(s) - 1))
  ELSE s

\* s.includes(q)
includes(s, q) ==
  \E i \in 0..(Len(s) - Len(q)) : SubSeq(s, i + 1, i + Len(q)) = q

Str_router == <<"r", "o", "u", "t", "e", "r">>

Str_snippet == <<"s", "n", "i", "p", "p", "e", "t">>

Str_question == <<"q", "u", "e", "s", "t", "i", "o", "n">>

NodeOption(label, to) == [label |-> label, to |-> to]

\* text is the list of the node's lines, [] when the field is absent
NodeT(id, title, type, text, options) ==
  [id |-> id, title |-> title, type |-> type, text |-> text,
   options |-> options]

GraphT(nodes, edges) == [kind |-> "graph", nodes |-> nodes, edges |-> edges]

\* a: options by id, by title, and without a target that exists;
\* b: no options, so its buttons are the edges leaving it; c: options
OptDocMain ==
  GraphT(
    << NodeT("a", Str_Ab, Str_router, <<>>,
             << NodeOption(<<"x">>, "c"),
                NodeOption(<<"b", "1">>, Null),
                NodeOption(<<"x">>, "zz"),
                NodeOption(Str_Marks, "zz") >>),
       NodeT("b", Str_B1, Str_snippet, << <<"x", "Z">> >>, <<>>),
       NodeT("c", Str_Ec, Str_question, <<>>,
             << NodeOption(<<"E", "C">>, Null),
                NodeOption(Str_Marks, Null),
                NodeOption(<<"x">>, Null),
                NodeOption(<<"A">>, "") >>) >>,
    << Edge("b", "a", "back"), Edge("b", "zz", "lost"),
       Edge("b", "a", "back"), Edge("a", "b", "unused") >>)

\* a document whose first node has no options and no edges
OptDocLeaf ==
  GraphT(<< NodeT("c", Str_Ec, Str_snippet, <<>>, <<>>),
            NodeT("a", Str_Ab, Str_router, <<>>, <<NodeOption(<<"x">>, "zz")>>) >>,
         <<>>)

\* two titles start with the label "b": the first node in document order
\* is the one found
OptDocTitles ==
  GraphT(
    << NodeT("a", Str_Ab, Str_router, <<>>,
             << NodeOption(<<"B">>, Null), NodeOption(<<"a", "b", "c">>, "zz") >>),
       NodeT("c", <<"b", "x">>, Str_snippet, <<>>, <<>>),
       NodeT("b", Str_B1, Str_snippet, <<>>, <<NodeOption(<<"A", ":">>, "zz")>>) >>,
    << Edge("c", "b", "") >>)

OptDocEmpty == GraphT(<<>>, <<>>)

OptDocs == {OptDocMain, OptDocLeaf, OptDocTitles, OptDocEmpty}

\* what the request for graph.json can produce
OptOutcomes ==
  { [kind |-> k, doc |-> NoNodeList] : k \in {"network_error", "not_json", "json_null"} }
  \cup { [kind |-> "json", doc |-> d] : d \in OptDocs \cup {NoNodeList} }

\* graph.nodes.find(n => n.id === id) is defined
ovHasNode(g, id) ==
  g.kind = "graph" /\ \E i \in 1..Len(g.nodes) : g.nodes[i].id = id

\* graph.nodes.find(n => n.id === id)
ovFind(g, id) ==
  g.nodes[CHOOSE i \in 1..Len(g.nodes) :
            /\ g.nodes[i].id = id
            /\ \A j \in 1..(i - 1) : g.nodes[j].id # id]

\* the viewer is rendered: neither the loading nor the not-found screen
ovShown ==
  /\ ovGraph.kind = "graph"
  /\ ovCurrentId # Null /\ ovCurrentId # ""
  /\ ovHasNode(ovGraph, ovCurrentId)

\* nodeOptions of the displayed node
nodeOptions(g, id) == ovFind(g, id).options

RECURSIVE uniqueEdges(_)
\* the Map keyed by `${label}>${to}`: one edge per key, at the place of
\* the key's first occurrence
uniqueEdges(es) ==
  IF es = <<>> THEN <<>>
  ELSE LET init == uniqueEdges(SubSeq(es, 1, Len(es) - 1))
           last == es[Len(es)]
       IN IF \E i \in 1..Len(init) :
               init[i].label = last.label /\ init[i].to = last.to
          THEN init ELSE Append(init, last)

\* edges: empty when the node has options, else the edges leaving it
edgeButtons(g, id) ==
  IF Len(nodeOptions(g, id)) > 0 THEN <<>>
  ELSE uniqueEdges(SelectSeqBy(g.edges, "from", id))

\* goToOption(label, to): by id, then by title, else console.warn
goToOption(g, c, label, to) ==
  LET byTitle == { i \in 1..Len(g.nodes) :
                     startsWith(normalize(g.nodes[i].title), normalize(label)) }
      first == CHOOSE i \in byTitle : \A j \in byTitle : i <= j
  IN IF g.kind # "graph" THEN [currentId |-> c, warned |-> FALSE]
     ELSE IF to # Null /\ to # "" /\ ovHasNode(g, to)
     THEN [currentId |-> to, warned |-> FALSE]
     ELSE IF byTitle # {}
     THEN [currentId |-> g.nodes[first].id, warned |-> FALSE]
     ELSE [currentId |-> c, warned |-> TRUE]

\* filteredNodes: every node when the trimmed search is empty, else the
\* nodes whose title, type or one line of text includes it, case ignored
ovFilteredNodes(g, search) ==
  LET q == lowerCase(trim(search))
  IN IF q = <<>> THEN g.nodes
     ELSE SelectSeq(g.nodes, LAMBDA n :
            \/ includes(lowerCase(n.title), q)
            \/ includes(lowerCase(n.type), q)
            \/ \E k \in 1..Len(n.text) : includes(lowerCase(n.text[k]), q))

\* the ids of the rows of the sidebar
ovRows(g, search) ==
  { ovFilteredNodes(g, search)[i].id : i \in 1..Len(ovFilteredNodes(g, search)) }

\* what is typed into the search input
OptSearches == { <<>>, <<" ">>, <<"B">>, <<" ", "z">>, <<"q", "u">> }

\* the search input: onChange={(e) => setSearch(e.target.value)}
OvSetSearch(q) ==
  /\ ovShown
  /\ q # ovSearch
  /\ ovSearch' = q
  /\ ovWarned' = FALSE
  /\ ovLastOp' = Op("setSearch", q)
  /\ UNCHANGED <<ovGraph, ovCurrentId, ovLoading>>
  /\ UNCHANGED notOptions

\* the answer to the request for graph.json (App.tsx 62-74):
\*   setGraph(data); if (data?.nodes?.length && !currentId) setCurrentId(nodes[0].id)
OvLoadDone(o) ==
  /\ ovLoading
  /\ ovLoading' = FALSE
  /\ ovWarned' = FALSE
  /\ UNCHANGED ovSearch
  /\ IF o.kind \in {"network_error", "not_json"}
     THEN /\ ovLastOp' = Op("loadFailed", o.kind)
          /\ UNCHANGED <<ovGraph, ovCurrentId>>
     ELSE IF o.kind = "json_null"
     THEN /\ ovLastOp' = Op("loadDone", "null")
          /\ UNCHANGED <<ovGraph, ovCurrentId>>
     ELSE /\ ovGraph' = o.doc
          /\ ovCurrentId' = IF Len(o.doc.nodes) > 0 /\ ovCurrentId \in {Null, ""}
                            THEN o.doc.nodes[1].id ELSE ovCurrentId
          /\ ovLastOp' = Op("loadDone", o.doc.kind)
  /\ UNCHANGED notOptions

\* an option button of App.tsx: onClick={() => op.to && setCurrentId(op.to)}
OvClickOption(opt) ==
  /\ ovShown
  /\ opt \in SeqToSet(nodeOptions(ovGraph, ovCurrentId))
  /\ ovCurrentId' = IF opt.to # Null /\ opt.to # "" THEN opt.to ELSE ovCurrentId
  /\ ovWarned' = FALSE
  /\ ovLastOp' = Op("clickOption", opt)
  /\ UNCHANGED <<ovGraph, ovLoading, ovSearch>>
  /\ UNCHANGED notOptions

\* an option button of the goToOption variant:
\* onClick={() => goToOption(opt.label, opt.to)}
GoToOptionClick(opt) ==
  /\ ovShown
  /\ opt \in SeqToSet(nodeOptions(ovGraph, ovCurrentId))
  /\ ovCurrentId' = goToOption(ovGraph, ovCurrentId, opt.label, opt.to).currentId
  /\ ovWarned' = goToOption(ovGraph, ovCurrentId, opt.label, opt.to).warned
  /\ ovLastOp' = Op("goToOption", opt)
  /\ UNCHANGED <<ovGraph, ovLoading, ovSearch>>
  /\ UNCHANGED notOptions

\* an edge button: onClick={() => setCurrentId(e.to)}
OvClickEdge(e) ==
  /\ ovShown
  /\ e \in SeqToSet(edgeButtons(ovGraph, ovCurrentId))
  /\ ovCurrentId' = e.to
  /\ ovWarned' = FALSE
  /\ ovLastOp' = Op("clickEdge", e)
  /\ UNCHANGED <<ovGraph, ovLoading, ovSearch>>
  /\ UNCHANGED notOptions

\* a row of the sidebar: onClick={() => setCurrentId(n.id)}
OvClickRow(id) ==
  /\ ovShown
  /\ id \in ovRows(ovGraph, ovSearch)
  /\ ovCurrentId' = id
  /\ ovWarned' = FALSE
  /\ ovLastOp' = Op("clickRow", id)
  /\ UNCHANGED <<ovGraph, ovLoading, ovSearch>>
  /\ UNCHANGED notOptions

OptionTargets == {"a", "b", "c", "zz", ""}

AllOptions ==
  UNION { UNION { SeqToSet(d.nodes[i].options) : i \in 1..Len(d.nodes) } :
            d \in OptDocs }

AllEdges == UNION { SeqToSet(d.edges) : d \in OptDocs }

\* App.tsx: mounted, the request for graph.json in flight
BoundaryInit ==
  /\ ovGraph = NullGraph
  /\ ovCurrentId = Null
  /\ ovLoading = TRUE
  /\ ovSearch = <<>>
  /\ ovWarned = FALSE
  /\ ovLastOp = Op("mount", "")

BoundaryNext ==
  \/ \E o \in OptOutcomes : OvLoadDone(o)
  \/ \E opt \in AllOptions : OvClickOption(opt)
  \/ \E e \in AllEdges : OvClickEdge(e)
  \/ \E id \in OptionTargets : OvClickRow(id)
  \/ \E q \in OptSearches : OvSetSearch(q)

\* the goToOption variant, taken where its handlers can run: a document is
\* loaded and a node of it is displayed
GoToOptionInit ==
  /\ ovGraph \in OptDocs
  /\ ovCurrentId \in ovRows(ovGraph, <<>>)
  /\ ovSearch = <<>>
  /\ ovLoading = FALSE
  /\ ovWarned = FALSE
  /\ ovLastOp = Op("mount", "")

GoToOptionNext ==
  \/ \E opt \in AllOptions : GoToOptionClick(opt)
  \/ \E e \in AllEdges : OvClickEdge(e)
  \/ \E id \in OptionTargets : OvClickRow(id)
  \/ \E q \in OptSearches : OvSetSearch(q)

\* ------------------------------------------------------------------------
\* Viewers that navigate by options: properties
\* ------------------------------------------------------------------------
\* the option's target is absent or is not the id of a node
TargetMissing(g, to) == to = Null \/ ~ovHasNode(g, to)

\* no title corresponds to the label: nothing is left of the label after
\* normalisation, or no normalised title starts with the normalised label
NoTitleCorresponds(g, label) ==
  \/ normalize(label) = <<>>
  \/ \A i \in 1..Len(g.nodes) :
       ~startsWith(normalize(g.nodes[i].title), normalize(label))

\* C11: goToOption with a target that is absent or not the id of a node,
\* and a label to which no title corresponds (a label with no letter or
\* digit left after normalisation included), leaves currentId unchanged.
C11_MissingTargetIgnored ==
  [][ (/\ ovLastOp'.op = "goToOption"
       /\ TargetMissing(ovGraph, ovLastOp'.arg.to)
       /\ NoTitleCorresponds(ovGraph, ovLastOp'.arg.label))
      => ovCurrentId' = ovCurrentId ]_vars

\* C12: in the viewer with the class ErrorBoundary, a click on an option
\* button or an edge button whose target is not the id of a node leaves
\* currentId as it was, and currentId goes on naming a node of the graph.
C12_UnknownTargetIgnored ==
  [][ (/\ ovLastOp'.op \in {"clickOption", "clickEdge"}
       /\ ~ovHasNode(ovGraph, ovLastOp'.arg.to))
      => (ovCurrentId' = ovCurrentId /\ ovHasNode(ovGraph, ovCurrentId')) ]_vars

\* ========================================================================
\* Sidebar list (src/src/App.tsx filteredNodes / displayNodes)
\* ========================================================================
\* the characters of an id; the ids of the sidebar documents are one
\* character long
idChars(id) == <<id>>

\* nodes whose title and text are lists of characters
SbNodesMain ==
  << GraphNode("a", Str_Ab, "snippet", <<>>, <<>>),
     GraphNode("b", Str_B1, "greeting", <<>>, <<>>),
     GraphNode("c", <<"E">>, "question", << <<"q">>, <<"x", "Z">> >>, <<>>) >>

\* a document in another order, without the node b
SbNodesShort ==
  << GraphNode("c", <<"E", " ", "b">>, "question", <<>>, <<>>),
     GraphNode("a", Str_Ab, "snippet", << <<"Z">> >>, <<>>) >>

SbNodeLists == {SbNodesMain, SbNodesShort}

\* what is typed into the search input
SbSearches == { <<>>, <<" ">>, <<"B">>, <<" ", "z">>, <<"c", " ">>, <<"1", "x">> }

\* the predicate of graph.nodes.filter in filteredNodes
matches(n, q) ==
  \/ includes(lowerCase(n.title), q)
  \/ includes(lowerCase(idChars(n.id)), q)
  \/ \E k \in 1..Len(n.text) : includes(lowerCase(n.text[k]), q)

\* filteredNodes
filteredNodes(nodes, search) ==
  LET q == lowerCase(trim(search))
  IN IF q = <<>> THEN nodes ELSE SelectSeq(nodes, LAMBDA n : matches(n, q))

\* the comparator of displayNodes: 0 for a pinned node, 1 for another
pinRank(n, ids) == IF n.id \in ids THEN 0 ELSE 1

RECURSIVE insertSorted(_, _, _)
\* x put into the sorted list after every element that does not rank after it
insertSorted(x, sorted, ids) ==
  IF sorted = <<>> THEN <<x>>
  ELSE IF pinRank(Head(sorted), ids) <= pinRank(x, ids)
       THEN <<Head(sorted)>> \o insertSorted(x, Tail(sorted), ids)
       ELSE <<x>> \o sorted

RECURSIVE stableSort(_, _)
\* Array.prototype.sort with the comparator ap - bp: a stable sort
stableSort(list, ids) ==
  IF list = <<>> THEN <<>>
  ELSE insertSorted(list[Len(list)],
                    stableSort(SubSeq(list, 1, Len(list) - 1), ids), ids)

\* displayNodes with the unfiltered list sorted
displayNodes_Unfiltered(nodes, search, pinned) ==
  stableSort(nodes, SeqToSet(pinned))

\* displayNodes: [...filteredNodes].sort(pinned first)
displayNodes(nodes, search, pinned) ==
  stableSort(filteredNodes(nodes, search), SeqToSet(pinned))

\* the search input: onChange={(e) => setSearch(e.target.value)}
SbSetSearch(q) ==
  /\ q # sbSearch
  /\ sbSearch' = q
  /\ sbLastOp' = Op("setSearch", q)
  /\ UNCHANGED sbNodes
  /\ UNCHANGED <<pinVars, notSidebar>>

\* the pin button of a row of the list
SbTogglePinned(id, ok) ==
  /\ id \in { displayNodes(sbNodes, sbSearch, pinnedIds)[i].id :
                i \in 1..Len(displayNodes(sbNodes, sbSearch, pinnedIds)) }
  /\ pinMounted
  /\ pinnedIds' = togglePinned(pinnedIds, id)
  /\ pinStore' = IF ok THEN PinsJSON(pinnedIds') ELSE pinStore
  /\ pinStorageFailed' = (pinStorageFailed \/ ~ok)
  /\ pinLastOp' = Op("toggle", id)
  /\ sbLastOp' = Op("togglePinned", id)
  /\ UNCHANGED <<pinMounted, pinsBefore, sbNodes, sbSearch>>
  /\ UNCHANGED notSidebar

\* the viewer shows a loaded document; the pins were read from a storage
\* that may hold the pins of an earlier session
SidebarInit ==
  /\ sbNodes \in SbNodeLists
  /\ sbSearch = <<>>
  /\ sbLastOp = Op("mount", "")

SidebarPins ==
  /\ pinMounted = TRUE
  /\ pinnedIds \in {<<>>, <<"c", "b">>}
  /\ pinStore = PinsJSON(pinnedIds)
  /\ pinsBefore = {}
  /\ pinStorageFailed = FALSE
  /\ pinLastOp = Op("mount", "")

SidebarNext ==
  \/ \E q \in SbSearches : SbSetSearch(q)
  \/ \E id \in PinIds, ok \in BOOLEAN : SbTogglePinned(id, ok)

\* ------------------------------------------------------------------------
\* Sidebar list: properties
\* ------------------------------------------------------------------------
\* the list shown
Shown_List == displayNodes(sbNodes, sbSearch, pinnedIds)

\* position of the node of id x in the document
PosInDoc(x) == CHOOSE i \in 1..Len(sbNodes) : sbNodes[i].id = x

\* the node passes the search filter: the trimmed, lower-cased search is
\* empty or is part of the lower-cased title, id or of a line of the text
Passes(n) ==
  LET q == lowerCase(trim(sbSearch))
  IN \/ q = <<>>
     \/ \E s \in {lowerCase(n.title), lowerCase(idChars(n.id))}
                 \cup { lowerCase(n.text[k]) : k \in 1..Len(n.text) } :
          \E i \in 0..Len(s), j \in 0..Len(s) : i <= j /\ SubSeq(s, i + 1, j) = q

IsPinned(x) == \E k \in 1..Len(pinnedIds) : pinnedIds[k] = x

\* C19: the list holds exactly the nodes that pass the search filter, each
\* once, every pinned node before every unpinned node, the document order
\* kept inside each group; an empty or blank search passes every node.
C19_DisplayNodes ==
  /\ { Shown_List[i].id : i \in 1..Len(Shown_List) }
       = { sbNodes[i].id : i \in { k \in 1..Len(sbNodes) : Passes(sbNodes[k]) } }
  /\ \A i, j \in 1..Len(Shown_List) :
       i < j =>
         /\ Shown_List[i].id # Shown_List[j].id
         /\ (IsPinned(Shown_List[j].id) => IsPinned(Shown_List[i].id))
         /\ (IsPinned(Shown_List[i].id) = IsPinned(Shown_List[j].id)
               => PosInDoc(Shown_List[i].id) < PosInDoc(Shown_List[j].id))
  /\ \A i \in 1..Len(Shown_List) : Shown_List[i] = sbNodes[PosInDoc(Shown_List[i].id)]
  /\ (trim(sbSearch) = <<>> => Len(Shown_List) = Len(sbNodes))

\* a search that two of three nodes pass, the later of them pinned and
\* therefore shown first
C19_Witness ==
  /\ sbNodes = SbNodesMain
  /\ sbSearch = <<"B">>
  /\ sbLastOp.op = "togglePinned"
  /\ Len(Shown_List) = 2
  /\ Shown_List[1].id = "b"
  /\ Shown_List[2].id = "a"

\* ========================================================================
\* layoutByLevels (src/src/components/GraphEditor.tsx 65-119)
\* ========================================================================
\* opts.xGap ?? 320 and opts.yGap ?? 180
DefaultXGap == 320

DefaultYGap == 180

\* what the layout reads of a canvas node and of a canvas edge
LyNode(id, type) == [id |-> id, type |-> type]

LyEdge(source, target) == [source |-> source, target |-> target]

\* the ids that occur, in the order Array.prototype.sort() puts them
\* (by UTF-16 code unit)
LyIdOrder == <<"", "a", "b", "c", "d", "zz">>

LyIds == { LyIdOrder[i] : i \in 1..Len(LyIdOrder) }

idRank(id) == CHOOSE i \in 1..Len(LyIdOrder) : LyIdOrder[i] = id

\* node lists: with a greeting node that is not the first, without one,
\* with a greeting node whose id is the empty string, a single node, and
\* four nodes
LyNodeLists ==
  { << LyNode("c", "snippet"), LyNode("b", "greeting"), LyNode("a", "question") >>,
    << LyNode("c", "router"), LyNode("a", "snippet"), LyNode("b", "snippet") >>,
    << LyNode("a", "snippet"), LyNode("", "greeting") >>,
    << LyNode("b", "snippet") >> }

LyFour ==
  << LyNode("d", "snippet"), LyNode("a", "router"), LyNode("c", "snippet"),
     LyNode("b", "question") >>

\* every pair of nodes of the list, row by row
LyPairs(nodes) ==
  [k \in 1..(Len(nodes) * Len(nodes)) |->
     LyEdge(nodes[((k - 1) \div Len(nodes)) + 1].id,
            nodes[((k - 1) % Len(nodes)) + 1].id)]

\* the pairs picked by the index set S, in the order of LyPairs
LyPick(pairs, S) ==
  [k \in 1..Cardinality(S) |->
     pairs[CHOOSE i \in S : Cardinality({ j \in S : j <= i }) = k]]

\* the edge lists tried with a node list: every set of edges between its
\* nodes, self-loops and cycles included
LyEdgeLists(nodes) ==
  { LyPick(LyPairs(nodes), S) : S \in SUBSET (1..(Len(nodes) * Len(nodes))) }

\* edge lists on four nodes: a chain with a shortcut, a cycle that leaves no
\* node without an incoming edge, the same edge twice with a self-loop
LyFourEdgeLists ==
  { << LyEdge("a", "b"), LyEdge("b", "c"), LyEdge("c", "d"), LyEdge("a", "c") >>,
    << LyEdge("d", "a"), LyEdge("a", "d"), LyEdge("a", "c"), LyEdge("c", "b"),
       LyEdge("d", "b") >>,
    << LyEdge("a", "b"), LyEdge("a", "b"), LyEdge("b", "b"), LyEdge("b", "d") >> }

\* opts.startId: absent, empty, a listed id, an id that is not listed
LyStarts == {Null, "", "a", "zz"}

\* opts.xGap and opts.yGap: absent (the defaults) or zero
LyGaps == { <<DefaultXGap, DefaultYGap>>, <<0, DefaultYGap>>, <<DefaultXGap, 0>> }

LyArgs(nodes, edges, startId, gaps) ==
  [nodes |-> nodes, edges |-> edges, startId |-> startId,
   xGap |-> gaps[1], yGap |-> gaps[2]]

LyInputs ==
  UNION { { LyArgs(ns, es, s, g) : es \in LyEdgeLists(ns), s \in LyStarts, g \in LyGaps }
          : ns \in LyNodeLists }
  \cup { LyArgs(LyFour, es, s, g) : es \in LyFourEdgeLists, s \in LyStarts, g \in LyGaps }

\* out.get(v) ?? []: the targets of the edges leaving v, in edge order
outOf(edges, v) ==
  LET leaving == SelectSeq(edges, LAMBDA e : e.source = v)
  IN [i \in 1..Len(leaving) |-> leaving[i].target]

\* inDeg.get(id): the number of edges that end at id
inDeg(edges, id) == Cardinality({ i \in 1..Len(edges) : edges[i].target = id })

\* nodes.find(n => n.data.type === "greeting")?.id, Null for undefined
greetingOf(nodes) ==
  LET gs == SelectSeq(nodes, LAMBDA n : n.type = "greeting")
  IN IF gs = <<>> THEN Null ELSE gs[1].id

\* an id that passes `if (id)`
Truthy(id) == id # Null /\ id # ""

\* roots that never looks at opts.startId
rootsOf_NoStartId(a) ==
  LET free == SelectSeq(a.nodes, LAMBDA n : inDeg(a.edges, n.id) = 0)
      picked == IF Truthy(greetingOf(a.nodes)) THEN <<greetingOf(a.nodes)>>
                ELSE [i \in 1..Len(free) |-> free[i].id]
  IN IF picked = <<>> THEN <<a.nodes[1].id>> ELSE picked

\* roots: startId, else the greeting node, else the nodes without incoming
\* edges, else nodes[0]
rootsOf(a) ==
  LET free == SelectSeq(a.nodes, LAMBDA n : inDeg(a.edges, n.id) = 0)
      picked == IF Truthy(a.startId) THEN <<a.startId>>
                ELSE IF Truthy(greetingOf(a.nodes)) THEN <<greetingOf(a.nodes)>>
                ELSE [i \in 1..Len(free) |-> free[i].id]
  IN IF picked = <<>> THEN <<a.nodes[1].id>> ELSE picked

\* the state of the while loop
LyState(level, q, sets, pushes) ==
  [level |-> level, q |-> q, sets |-> sets, pushes |-> pushes]

\* level.get(id) ?? 0
levelOr0(level, id) == IF id \in DOMAIN level THEN level[id] ELSE 0

RECURSIVE visitAll_NoHasCheck(_, _, _)
\* the for loop without `if (!level.has(w))` for the level: the level of w
\* is set again each time an edge reaches it
visitAll_NoHasCheck(ws, st, lv) ==
  IF ws = <<>> THEN st
  ELSE LET w == Head(ws)
       IN IF w \in DOMAIN st.level
          THEN visitAll_NoHasCheck(Tail(ws),
                 LyState([st.level EXCEPT ![w] = lv + 1], st.q,
                         [st.sets EXCEPT ![w] = @ + 1], st.pushes), lv)
          ELSE visitAll_NoHasCheck(Tail(ws),
                 LyState((w :> (lv + 1)) @@ st.level, Append(st.q, w),
                         [st.sets EXCEPT ![w] = @ + 1],
                         [st.pushes EXCEPT ![w] = @ + 1]), lv)

RECURSIVE visitAll(_, _, _)
\* for (const w of out.get(v) ?? []) if (!level.has(w)) { set; push }
visitAll(ws, st, lv) ==
  IF ws = <<>> THEN st
  ELSE LET w == Head(ws)
       IN IF w \in DOMAIN st.level
          THEN visitAll(Tail(ws), st, lv)
          ELSE visitAll(Tail(ws),
                 LyState((w :> (lv + 1)) @@ st.level, Append(st.q, w),
                         [st.sets EXCEPT ![w] = @ + 1],
                         [st.pushes EXCEPT ![w] = @ + 1]), lv)

RECURSIVE sortIds(_)
\* ids.sort()
sortIds(ids) ==
  IF ids = <<>> THEN <<>>
  ELSE LET rest == sortIds(Tail(ids))
           lower == SelectSeq(rest, LAMBDA x : idRank(x) <= idRank(Head(ids)))
           upper == SelectSeq(rest, LAMBDA x : idRank(x) > idRank(Head(ids)))
       IN lower \o <<Head(ids)>> \o upper

\* buckets.get(L) after ids.sort(): the ids of the nodes of level L
bucket(nodes, level, L) ==
  LET at == SelectSeq(nodes, LAMBDA n : levelOr0(level, n.id) = L)
  IN sortIds([i \in 1..Len(at) |-> at[i].id])

\* the zero-based index of id in the row
indexIn(row, id) == (CHOOSE i \in 1..Len(row) : row[i] = id) - 1

\* a node of the result; x2 is twice position.x, which keeps the half of
\* the row width a whole number
LaidNode(id, x2, y) == [id |-> id, x2 |-> x2, y |-> y]

\* laid: node.position = { x: x0 + i * xGap, y: L * yGap } with
\* x0 = -((ids.length - 1) * xGap) / 2
placeAll(a, level) ==
  [k \in 1..Len(a.nodes) |->
     LET L == levelOr0(level, a.nodes[k].id)
         row == bucket(a.nodes, level, L)
         i == indexIn(row, a.nodes[k].id)
     IN LaidNode(a.nodes[k].id,
                 0 - (Len(row) - 1) * a.xGap + 2 * i * a.xGap,
                 L * a.yGap)]

\* how often id occurs in the list
countIn(list, id) == Cardinality({ i \in 1..Len(list) : list[i] = id })

\* lines 73-90: out, inDeg, roots, level of the roots, q = [...roots]
LyStart ==
  /\ lyPc = "start"
  /\ lyPc' = "loop"
  /\ lyRoots' = rootsOf(lyIn)
  /\ lyLevel' = [r \in SeqToSet(rootsOf(lyIn)) |-> 0]
  /\ lyQ' = rootsOf(lyIn)
  /\ lySets' = [id \in LyIds |-> countIn(rootsOf(lyIn), id)]
  /\ lyPushes' = [id \in LyIds |-> countIn(rootsOf(lyIn), id)]
  /\ UNCHANGED <<lyIn, lyLaid>>
  /\ UNCHANGED notLayout

\* one pass of the while loop: v = q.shift() and the for loop over out(v)
LyVisit ==
  /\ lyPc = "loop"
  /\ lyQ # <<>>
  /\ LET v == Head(lyQ)
         st == visitAll(outOf(lyIn.edges, v),
                        LyState(lyLevel, Tail(lyQ), lySets, lyPushes),
                        levelOr0(lyLevel, v))
     IN /\ lyLevel' = st.level
        /\ lyQ' = st.q
        /\ lySets' = st.sets
        /\ lyPushes' = st.pushes
  /\ UNCHANGED <<lyIn, lyPc, lyRoots, lyLaid>>
  /\ UNCHANGED notLayout

\* lines 101-118: the queue is empty; buckets, positions, return laid
LyPlace ==
  /\ lyPc = "loop"
  /\ lyQ = <<>>
  /\ lyPc' = "done"
  /\ lyLaid' = placeAll(lyIn, lyLevel)
  /\ UNCHANGED <<lyIn, lyRoots, lyLevel, lyQ, lySets, lyPushes>>
  /\ UNCHANGED notLayout

\* the call: the arguments are bound and nothing has run
LayoutInit ==
  /\ lyIn \in LyInputs
  /\ lyPc = "start"
  /\ lyRoots = <<>>
  /\ lyLevel = << >>
  /\ lyQ = <<>>
  /\ lyLaid = <<>>
  /\ lySets = [id \in LyIds |-> 0]
  /\ lyPushes = [id \in LyIds |-> 0]

LayoutNext == LyStart \/ LyVisit \/ LyPlace

\* ========================================================================
\* Specifications
\* ========================================================================
\* the components not under study stay in one fixed initial state
LayoutIdle ==
  LayoutInit /\ lyIn = LyArgs(<<LyNode("b", "snippet")>>, <<>>, Null,
                              <<DefaultXGap, DefaultYGap>>)

SidebarIdle == SidebarInit /\ sbNodes = SbNodesMain

EditorIdle == EditorInit /\ edValue = DocExplicitEdges

NotesIdle == NotesInit /\ noteVariant = "lazy"

\* the viewer
Init == ViewerInit /\ EditorIdle /\ NotesIdle /\ PinsInit /\ BoundaryInit
  /\ SidebarIdle /\ LayoutIdle

Next == ViewerNext

Spec == Init /\ [][Next]_vars

\* the editor
InitEditor == ViewerInit /\ EditorInit /\ NotesIdle /\ PinsInit /\ BoundaryInit
  /\ SidebarIdle /\ LayoutIdle

NextEditor == EditorNext

SpecEditor == InitEditor /\ [][NextEditor]_vars

\* the notes panel
InitNotes == ViewerInit /\ EditorIdle /\ NotesInit /\ PinsInit /\ BoundaryInit
  /\ SidebarIdle /\ LayoutIdle

NextNotes == NotesNext

SpecNotes == InitNotes /\ [][NextNotes]_vars

\* the pinned nodes
InitPins == ViewerInit /\ EditorIdle /\ NotesIdle /\ PinsInit /\ BoundaryInit
  /\ SidebarIdle /\ LayoutIdle

NextPins == PinsNext

SpecPins == InitPins /\ [][NextPins]_vars

\* the viewer with the class ErrorBoundary
InitBoundary == ViewerInit /\ EditorIdle /\ NotesIdle /\ PinsInit /\ BoundaryInit
  /\ SidebarIdle /\ LayoutIdle

NextBoundary == BoundaryNext

SpecBoundary == InitBoundary /\ [][NextBoundary]_vars

\* the viewer that navigates with goToOption
InitGoToOption == ViewerInit /\ EditorIdle /\ NotesIdle /\ PinsInit /\ GoToOptionInit
  /\ SidebarIdle /\ LayoutIdle

NextGoToOption == GoToOptionNext

SpecGoToOption == InitGoToOption /\ [][NextGoToOption]_vars

\* the list of the sidebar
InitSidebar ==
  ViewerInit /\ EditorIdle /\ NotesIdle /\ SidebarPins /\ BoundaryInit
  /\ SidebarInit /\ LayoutIdle

NextSidebar == SidebarNext

SpecSidebar == InitSidebar /\ [][NextSidebar]_vars

\* one call of layoutByLevels; a call that has started runs to its return
InitLayout == ViewerInit /\ EditorIdle /\ NotesIdle /\ PinsInit /\ BoundaryInit
  /\ SidebarIdle /\ LayoutInit

NextLayout == LayoutNext

SpecLayout == InitLayout /\ [][NextLayout]_vars /\ WF_vars(NextLayout)

\* ------------------------------------------------------------------------
\* Viewer: properties
\* ------------------------------------------------------------------------
\* C1: goTo(nextId) with nextId empty or not the id of a node of the loaded
\* graph leaves currentId and history unchanged.
C1_UnknownTargetIgnored ==
  [][ (lastOp'.op = "goTo"
        /\ (lastOp'.arg = "" \/ lastOp'.arg \notin NodeIds(graph)))
      => (currentId' = currentId /\ history' = history) ]_vars

\* a click on the button of the transition to the unknown id "zz" was handled
C1_Witness ==
  /\ lastOp = Op("goTo", "zz")
  /\ "zz" \notin NodeIds(graph)
  /\ Len(history) >= 2

\* C2 (as stated): goTo(nextId) with nextId the id of a node of the loaded
\* graph sets currentId to nextId and appends nextId to history.
C2_Original ==
  [][ (lastOp'.op = "goTo" /\ lastOp'.arg \in NodeIds(graph))
      => (currentId' = lastOp'.arg /\ history' = Append(history, lastOp'.arg)) ]_vars

\* C2 (amended): goTo(nextId) with nextId the non-empty id of a node of the
\* loaded graph sets currentId to nextId and appends nextId to history.
C2_KnownTargetNavigates ==
  [][ (lastOp'.op = "goTo" /\ lastOp'.arg # "" /\ lastOp'.arg \in NodeIds(graph))
      => (currentId' = lastOp'.arg /\ history' = Append(history, lastOp'.arg)) ]_vars

\* a click has navigated to a known node
C2_Witness ==
  /\ lastOp.op = "goTo"
  /\ lastOp.arg \in NodeIds(graph)
  /\ currentId = lastOp.arg
  /\ Len(history) >= 2
  /\ history[Len(history)] = currentId
  /\ history[Len(history) - 1] # currentId

\* the entry point as the claim words it: the first greeting node, or the
\* first node when no node is a greeting
ClaimedStart(g) ==
  LET greetings == SelectSeqBy(g.nodes, "type", "greeting")
  IN IF Len(greetings) > 0 THEN greetings[1].id
     ELSE IF Len(g.nodes) > 0 THEN g.nodes[1].id
     ELSE Null

\* the entry point of the code: an empty id counts as no id
EntryPoint(g) ==
  LET greetings == SelectSeqBy(g.nodes, "type", "greeting")
  IN IF Len(greetings) > 0 /\ greetings[1].id # "" THEN greetings[1].id
     ELSE IF Len(g.nodes) > 0 /\ g.nodes[1].id # "" THEN g.nodes[1].id
     ELSE Null

AfterLoadOrHome == lastOp = Op("loadDone", "loaded") \/ lastOp.op = "goHome"

\* C3 (as stated): after every successful load and after every goHome,
\* currentId is the id of the first greeting node, or of the first node when
\* there is no greeting node, and history is the list holding that id.
C3_Original ==
  AfterLoadOrHome =>
    (currentId = ClaimedStart(graph) /\ history = <<ClaimedStart(graph)>>)

\* C3 (amended): after every successful load and after every goHome,
\* currentId is the id of the first greeting node when that id is not empty,
\* otherwise the id of the first node, and history is the list holding that
\* id; when the document has no such non-empty id, currentId is null and
\* history is empty.
C3_EntryPoint ==
  AfterLoadOrHome =>
    /\ currentId = EntryPoint(graph)
    /\ history = IF EntryPoint(graph) = Null THEN <<>> ELSE <<EntryPoint(graph)>>

\* goHome has brought the viewer back from another node to the greeting
\* node, which is not the first node of the document
C3_Witness ==
  /\ lastOp.op = "goHome"
  /\ graph = DocMain
  /\ currentId = "b"
  /\ history = <<"b">>

\* C4: when every candidate request of the startup load fails (status not
\* OK, network failure, body that is not JSON), the failure is logged and
\* graph and currentId stay null as long as the language is not changed.
C4_FailedStartupBlocks ==
  (startup = "all_candidates_failed" /\ started = 1) =>
    (graph = NullGraph /\ currentId = Null /\ history = <<>> /\ logged >= 1)

\* both candidates of the startup load have failed
C4_Witness ==
  /\ startup = "all_candidates_failed"
  /\ loads = <<>>
  /\ fetchCount = 2

UserOps == {"goTo", "goBack", "goHome", "restart"}

\* C5 (as stated): once the startup load has completed no further fetch is
\* issued and the graph is never replaced by fetched data.
C5_Original ==
  [][ startup # "pending" => (fetchCount' = fetchCount /\ graph' = graph) ]_vars

\* C5 (amended): once the startup load has completed, a fetch is issued only
\* by a change of the language (the load it starts, with its fallback
\* request) and the graph is replaced only by the result of such a load;
\* goTo, goBack, goHome and restart issue no fetch and leave the graph alone.
C5_FetchOnlyOnLanguageChange ==
  [][ startup # "pending" =>
        /\ (lastOp'.op \in UserOps =>
              (fetchCount' = fetchCount /\ loads' = loads /\ graph' = graph))
        /\ (fetchCount' # fetchCount =>
              (lastOp'.op \in {"setLang", "fetchNext"}
                /\ \A i \in 1..Len(loads') : loads'[i].id > 1))
        /\ (graph' # graph => (lastOp'.op = "loadDone" /\ started > 1)) ]_vars

\* the document of another language has replaced the startup document
C5_Witness ==
  /\ startup = "loaded"
  /\ lastOp = Op("loadDone", "loaded")
  /\ graphLang = "cs"
  /\ fetchCount >= 2

\* C6 (as stated): within one load, once a request has failed no further
\* request is issued.
C6_Original ==
  \A i \in 1..Len(loads) : loads[i].failed = 0

\* C6 (amended): within one load no file is requested twice; after a failed
\* request the only further request is the one for graph.json that follows
\* graph.pl.json when the language is pl, and a load of any other language
\* issues a single request.
C6_NoRepeatedRequest ==
  \A i \in 1..Len(loads) :
    LET r == loads[i].requested IN
    /\ Len(r) \in {1, 2}
    /\ loads[i].failed = Len(r) - 1
    /\ Len(r) = 2 => (loads[i].lang = "pl" /\ r = <<"graph.pl.json", "graph.json">>)

\* the fallback request of a pl load is in flight after the first one failed
C6_Witness ==
  \E i \in 1..Len(loads) :
    /\ loads[i].failed = 1
    /\ loads[i].requested = <<"graph.pl.json", "graph.json">>

\* a load has succeeded at some point: the in-memory graph is a value that
\* a request returned
SomeLoadSucceeded == graph # NullGraph

\* C13: once a load has succeeded, currentId is null or the id of a node of
\* the in-memory graph, and so is every element of history.
C13_IdsResolve ==
  SomeLoadSucceeded =>
    /\ (currentId = Null \/ currentId \in NodeIds(graph))
    /\ \A i \in 1..Len(history) : history[i] \in NodeIds(graph)

\* the same, as long as no load has replaced the graph by a value without
\* a node list
C13_IdsResolveUnlessCrashed ==
  (SomeLoadSucceeded /\ ~crashed) =>
    /\ (currentId = Null \/ currentId \in NodeIds(graph))
    /\ \A i \in 1..Len(history) : history[i] \in NodeIds(graph)

\* C14: history is empty exactly when currentId is null, and otherwise the
\* last element of history is currentId.
C14_HistoryInStep ==
  /\ (history = <<>>) <=> (currentId = Null)
  /\ history # <<>> => history[Len(history)] = currentId

\* goBack has brought the viewer from a second node back to the first
C14_Witness ==
  /\ lastOp.op = "goBack"
  /\ Len(history) = 1
  /\ history[1] = currentId
  /\ fetchCount = 1

Buttons == transitions(graph, nodeMapGet(graph, currentId))

\* positions in the document of the edges that leave the displayed node
EdgesOut == { i \in 1..Len(graph.edges) : graph.edges[i].from = currentId }

\* C16: the buttons of the displayed node are its own transitions when it
\* has any; otherwise there is one button per document edge whose `from` is
\* the node's id, in document order, with the edge's label and target (none
\* when no edge leaves the node).
C16_ButtonsOfNode ==
  Shown =>
    IF Len(nodeMapGet(graph, currentId).transitions) > 0
    THEN Buttons = nodeMapGet(graph, currentId).transitions
    ELSE /\ Len(Buttons) = Cardinality(EdgesOut)
         /\ \A i \in EdgesOut :
              LET k == Cardinality({ j \in EdgesOut : j <= i })
              IN /\ Buttons[k].label = graph.edges[i].label
                 /\ Buttons[k].to = graph.edges[i].to

\* a node without transitions of its own is displayed with the buttons of
\* the two edges that leave it, while other edges of the document do not
C16_Witness ==
  /\ Shown
  /\ Len(nodeMapGet(graph, currentId).transitions) = 0
  /\ Cardinality(EdgesOut) = 2
  /\ Len(graph.edges) > 2
  /\ lastOp.op = "goTo"

\* C17: the result of an earlier, slower request never overwrites the result
\* of a later one (the in-memory graph only ever passes from the document
\* of one load to the document of a load started later), so that once
\* every fetch has completed after a change of the language whose load
\* succeeded, the graph is the document of the selected language.
C17_NoStaleOverwrite ==
  [][ graphRun' # graphRun => graphRun' > graphRun ]_vars

\* C18: a load that fails at any step (status not OK, body that is not
\* JSON, JSON value without a node list) leaves graph, currentId and
\* history as they were, and a load that succeeds sets the three together.
C18_LoadAllOrNothing ==
  [][ lastOp'.op = "loadDone" =>
        IF lastOp'.arg = "loaded"
        THEN /\ graph'.kind = "graph"
             /\ currentId' = EntryPoint(graph')
             /\ history' = IF EntryPoint(graph') = Null THEN <<>>
                           ELSE <<EntryPoint(graph')>>
        ELSE graph' = graph /\ currentId' = currentId /\ history' = history ]_vars

\* new is old restricted to the positions K, in the order of old
KeepsExactly(new, old, K) ==
  /\ Len(new) = Cardinality(K)
  /\ \A i \in K : new[Cardinality({ j \in K : j <= i })] = old[i]

CanvasResolves(nodes, edges) ==
  LET ids == { nodes[k].id : k \in 1..Len(nodes) }
  IN \A i \in 1..Len(edges) : edges[i].source \in ids /\ edges[i].target \in ids

\* every edge and every transition target of the document is a known node id
DocResolves(g) ==
  LET ids == NodeIds(g) IN
  /\ \A i \in 1..Len(g.edges) : g.edges[i].from \in ids /\ g.edges[i].to \in ids
  /\ \A k \in 1..Len(g.nodes) : \A j \in 1..Len(g.nodes[k].transitions) :
       g.nodes[k].transitions[j].to \in ids

\* the step is the completion of an import
ImportsNow == uploads # <<>> /\ Importable(Head(uploads).file)

\* C21: the editor starts with a canvas whose edges all join nodes of the
\* canvas; every step from such a state, on a value that resolves, that is
\* not the import of a document with an unknown edge end or transition
\* target, leads to such a state again, and a document saved or exported
\* by such a step has no edge to an unknown node.
C21_EdgesResolve ==
  /\ (DocResolves(edValue) => CanvasResolves(edNodes, edEdges))
  /\ [][ ( /\ CanvasResolves(edNodes, edEdges)
           /\ DocResolves(edValue)
           /\ (ImportsNow => DocResolves(Head(uploads).file.doc)) )
         => /\ CanvasResolves(edNodes', edEdges')
            /\ DocResolves(edValue')
            /\ edLastOp'.op = "saveBack" => DocResolves(onChangeArg')
            /\ edLastOp'.op = "downloadJSON" => DocResolves(exported'.file.doc) ]_vars

\* after the import of an exported document that resolves, a node was
\* deleted and the edges that ended at it went with it
C21_Witness ==
  /\ edLastOp.op = "deleteSelection"
  /\ edLastOp.arg # Null
  /\ importedFrom # NoCanvas
  /\ CanvasResolves(importedFrom.nodes, importedFrom.edges)
  /\ Len(importedFrom.edges) = 2
  /\ Len(edNodes) = 1
  /\ edEdges = <<>>

\* C22: each time the editor goes from closed to open, its nodes and edges
\* are the conversion of the current value and nothing is selected, whatever
\* the canvas and the selection were when it was closed.
C22_ReopenResets ==
  [][ (~edOpen /\ edOpen') =>
        /\ edNodes' = toReactFlow(edValue').nodes
        /\ edEdges' = toReactFlow(edValue').edges
        /\ selectedNodeId' = Null ]_vars

\* a node was added and exported but never saved; after closing and opening
\* again the canvas has the nodes of the value only
C22_Witness ==
  /\ edLastOp.op = "open"
  /\ onChangeCount = 0
  /\ exported.isExport
  /\ Len(exported.from.nodes) = Len(edValue.nodes) + 1
  /\ Len(edNodes) = Len(edValue.nodes)

\* the step completes the pending import
ImportCompletes == uploads # <<>> /\ uploads' = Tail(uploads)

\* C23: an import of a file that is not JSON, or of a JSON document without
\* a node list, raises one alert and leaves the nodes, the edges and the
\* selection as they were; an import that succeeds replaces the nodes and
\* the edges together, by the conversion of the one document.
C23_FailedImportChangesNothing ==
  [][ ImportCompletes =>
        IF Head(uploads).file.kind = "not_json"
           \/ Head(uploads).file.doc.kind # "graph"
        THEN /\ alerts' = alerts + 1
             /\ edNodes' = edNodes
             /\ edEdges' = edEdges
             /\ selectedNodeId' = selectedNodeId
        ELSE /\ alerts' = alerts
             /\ edNodes' = toReactFlow(Head(uploads).file.doc).nodes
             /\ edEdges' = toReactFlow(Head(uploads).file.doc).edges ]_vars

\* both kinds of bad file were imported while an added node was selected,
\* and the canvas still holds it
C23_Witness ==
  /\ edLastOp.op = "uploadFailed"
  /\ alerts = 2
  /\ selectedNodeId \in GenIds
  /\ Len(edNodes) = Len(edValue.nodes) + 1
  /\ edEdges # <<>>

\* the canvas is the conversion of the value: nothing was edited
Unedited ==
  /\ edNodes = toReactFlow(edValue).nodes
  /\ edEdges = toReactFlow(edValue).edges

\* C24: saveBack on an unedited canvas stores a document from which the
\* viewer computes, for every node, the same list of transitions (label and
\* target, in order) as from the document the editor was opened on.
C24_SaveKeepsScript ==
  [][ (edOpen /\ Unedited /\ edLastOp'.op = "saveBack") =>
        /\ Len(edValue'.nodes) = Len(edValue.nodes)
        /\ \A k \in 1..Len(edValue.nodes) :
             /\ edValue'.nodes[k].id = edValue.nodes[k].id
             /\ transitions(edValue', edValue'.nodes[k])
                  = transitions(edValue, edValue.nodes[k]) ]_vars

\* no two nodes of the canvas have the same id
DistinctIds(nodes) ==
  \A i, j \in 1..Len(nodes) : nodes[i].id = nodes[j].id => i = j

\* C25: addNode keeps the node ids of the canvas pairwise distinct: the id
\* it gets from genId is not the id of a node already present.
C25_AddNodeKeepsIdsDistinct ==
  [][ (edLastOp'.op = "addNode" /\ DistinctIds(edNodes))
        => DistinctIds(edNodes') ]_vars

\* the ids reached from the set R along at most d edges
RECURSIVE Within(_, _, _)
Within(edges, R, d) ==
  IF d = 0 THEN R
  ELSE LET prev == Within(edges, R, d - 1)
       IN prev \cup { edges[i].target : i \in { j \in 1..Len(edges) :
                                                 edges[j].source \in prev } }

Reachable(edges, R, id) == id \in Within(edges, R, Len(edges))

\* the length of a shortest directed path from a root to id
Dist(edges, R, id) ==
  CHOOSE d \in 0..Len(edges) :
    /\ id \in Within(edges, R, d)
    /\ \A e \in 0..(d - 1) : id \notin Within(edges, R, e)

NoIncoming(a) ==
  { a.nodes[k].id : k \in { j \in 1..Len(a.nodes) :
                             \A i \in 1..Len(a.edges) :
                               a.edges[i].target # a.nodes[j].id } }

HasGreeting(a) == \E k \in 1..Len(a.nodes) : a.nodes[k].type = "greeting"

\* the root set of the claim: the given startId, else the first greeting
\* node, else all nodes without incoming edges, else the first node; an
\* empty startId counts as not given
ClaimedRoots(a) ==
  IF Truthy(a.startId) THEN {a.startId}
  ELSE IF HasGreeting(a) THEN {greetingOf(a.nodes)}
  ELSE IF NoIncoming(a) # {} THEN NoIncoming(a)
  ELSE {a.nodes[1].id}

\* the same, where a greeting node whose id is the empty string is passed
\* over
AmendedRoots(a) ==
  IF Truthy(a.startId) THEN {a.startId}
  ELSE IF HasGreeting(a) /\ greetingOf(a.nodes) # "" THEN {greetingOf(a.nodes)}
  ELSE IF NoIncoming(a) # {} THEN NoIncoming(a)
  ELSE {a.nodes[1].id}

\* every node reached from R is at y = d * yGap, every other node at y = 0
LevelsFrom(R) ==
  /\ Len(lyLaid) = Len(lyIn.nodes)
  /\ \A k \in 1..Len(lyIn.nodes) :
       lyLaid[k].y =
         IF Reachable(lyIn.edges, R, lyIn.nodes[k].id)
         THEN Dist(lyIn.edges, R, lyIn.nodes[k].id) * lyIn.yGap
         ELSE 0

AtMostOnce == \A id \in LyIds : lySets[id] <= 1 /\ lyPushes[id] <= 1

\* the result has one node per input node, with the same ids in the same
\* order
SameNodes ==
  /\ Len(lyLaid) = Len(lyIn.nodes)
  /\ \A k \in 1..Len(lyLaid) : lyLaid[k].id = lyIn.nodes[k].id

DistinctPositions ==
  \A i, j \in 1..Len(lyLaid) :
    (lyLaid[i].x2 = lyLaid[j].x2 /\ lyLaid[i].y = lyLaid[j].y) => i = j

\* C27 (as stated): layoutByLevels terminates on every non-empty graph whose
\* edges join listed nodes, cycles and self-loops included; each node gets a
\* level at most once and enters the queue at most once, and the result has
\* one node per input node, same ids, same order, pairwise distinct
\* positions.
C27_Original ==
  /\ <>(lyPc = "done")
  /\ [](AtMostOnce)
  /\ [](lyPc = "done" => (SameNodes /\ DistinctPositions))

\* C27 (amended): the same, with the positions pairwise distinct when
\* neither xGap nor yGap is zero.
C27_Terminates ==
  /\ <>(lyPc = "done")
  /\ [](AtMostOnce)
  /\ [](lyPc = "done" =>
          /\ SameNodes
          /\ (lyIn.xGap # 0 /\ lyIn.yGap # 0) => DistinctPositions)

\* a cycle through every one of four nodes, with a node reached by two
\* edges, was laid out with the default gaps
C27_Witness ==
  /\ lyPc = "done"
  /\ lyIn.nodes = LyFour
  /\ NoIncoming(lyIn) = {}
  /\ lyIn.xGap = DefaultXGap /\ lyIn.yGap = DefaultYGap
  /\ \A id \in {"a", "b", "c", "d"} : lySets[id] = 1 /\ lyPushes[id] = 1
  /\ DistinctPositions

\* the note stored under the key, the empty text when none is stored
StoredNote(store, key) == IF store[key] = Null THEN "" ELSE store[key]

\* C28: when the graphKey of a mounted panel changes, what is stored under
\* the new key stays as it was (the note of the old key is not written
\* there), and the panel, once no state update is pending, shows the note
\* stored under the new key, the empty text when none is stored.
C28_NotesPerKey ==
  [][ (noteMounted /\ noteMounted' /\ noteKey' # noteKey) =>
        /\ noteStore'[storageKey(noteVariant, noteKey')]
             = noteStore[storageKey(noteVariant, noteKey')]
        /\ ~notePending'.set =>
             noteValue' = StoredNote(noteStore, storageKey(noteVariant, noteKey')) ]_vars

\* the documents being converted: the value of the editor and the document
\* of a pending import
Converted ==
  {edValue} \cup
  (IF uploads # <<>> /\ Importable(Head(uploads).file)
   THEN {Head(uploads).file.doc} ELSE {})

\* the number of transitions of the nodes before the k-th
RECURSIVE TransitionsBefore(_, _)
TransitionsBefore(nodes, k) ==
  IF k = 1 THEN 0
  ELSE TransitionsBefore(nodes, k - 1) + Len(nodes[k - 1].transitions)

\* the canvas edge e goes from `from` to `to` with the label `label`
JoinsAs(e, from, to, label) ==
  e.source = from /\ e.target = to /\ e.label = label

\* the canvas edges of g are its explicit edges when it has any, else one
\* edge per node transition in node order; shown(l) is the label written for
\* the label l
EdgesBySource(g, shown(_)) ==
  LET es == toReactFlow(g).edges IN
  IF Len(g.edges) > 0
  THEN /\ Len(es) = Len(g.edges)
       /\ \A i \in 1..Len(es) :
            JoinsAs(es[i], g.edges[i].from, g.edges[i].to, shown(g.edges[i].label))
  ELSE /\ Len(es) = TransitionsBefore(g.nodes, Len(g.nodes) + 1)
       /\ \A k \in 1..Len(g.nodes) : \A j \in 1..Len(g.nodes[k].transitions) :
            JoinsAs(es[TransitionsBefore(g.nodes, k) + j], g.nodes[k].id,
                    g.nodes[k].transitions[j].to,
                    shown(g.nodes[k].transitions[j].label))

SameLabel(l) == l

ArrowIfEmpty(l) == IF l = "" THEN Arrow ELSE l

\* C29 (as stated): toReactFlow gives exactly the document's explicit edges
\* when that list is non-empty, and otherwise one edge per node transition
\* (from the node's id to the transition's target, with its label) in node
\* order.
C29_Original == \A g \in Converted : EdgesBySource(g, SameLabel)

\* C29 (amended): the same, where an edge or transition with an empty label
\* gets the arrow as its label.
C29_ExplicitEdgesFirst == \A g \in Converted : EdgesBySource(g, ArrowIfEmpty)

\* the editor was opened on a document with two explicit edges and a node
\* transition of its own: the canvas has the two edges only
C29_Witness ==
  /\ edLastOp.op = "open"
  /\ Len(edValue.edges) = 2
  /\ \E k \in 1..Len(edValue.nodes) : Len(edValue.nodes[k].transitions) > 0
  /\ edEdges = toReactFlow(edValue).edges
  /\ Len(edEdges) = 2
  /\ edEdges[1].label = "go"

====
